---- MODULE Spec2Model ----
(***************************************************************************)
(* The timeline editing model of HashCut: tracks, elements (clips), the    *)
(* selection, the playhead, and the toolbar commands of the timeline       *)
(* component that mutate them through the timeline store.                  *)
(*                                                                         *)
(* Times are counted in tenths of a second, so that the 0.1 s gap of the   *)
(* duplicate command and the 10 s floor of the playback duration are       *)
(* integers (1 and 100).                                                   *)
(*                                                                         *)
(* The timeline store itself (timeline-store.ts) is not among the source   *)
(* files; its operations are modelled from their specification.  The       *)
(* toolbar handlers and the duration effect are modelled from the          *)
(* component's code.                                                       *)
(***************************************************************************)
EXTENDS Integers, Sequences, FiniteSets, TLC

\* ------------------------------------------------------------- bounds
\* Ids the id generator ever gives, to tracks and to elements.
MaxIds == 4
\* Entries of the selection.
MaxSel == 2
\* Playhead positions the commands are given at: 2, 4, .. 2 * MaxPlayhead
\* tenths of a second.
MaxPlayhead == 2

\* ---------------------------------------------------- program constants
\* The 0.1 s gap the duplicate command leaves after the original.
DuplicateGap == 1
\* The 10 s floor of the playback duration.
MinDuration == 100
\* The "no new id" answer of splitElement and separateAudio (null).
NoId == 0

\* TIMELINE_CONSTANTS.DEFAULT_TEXT_DURATION, the length of the test clip: 5 s.
DefaultTextDuration == 50

\* ------------------------------------------------------------- inputs
TrackTypes == {"media", "text", "audio"}
\* The types of the tracks added by hand; audio tracks come from
\* separateAudio.
AddedTrackTypes == {"media"}
\* The media asset provider's assets and their durations.
MediaIds == {"m1"}
MediaDuration(m) == 4
\* Where an asset is placed on a track: at the origin, or so that it ends
\* after the 10 s floor of the playback duration.
StartTimes == {0, 98}
ElementSpecs ==
    { [mediaId |-> m, duration |-> MediaDuration(m), startTime |-> s,
       trimStart |-> 0, trimEnd |-> 0] : m \in MediaIds, s \in StartTimes }
\* The playhead positions (currentTime of the playback store) at which the
\* commands are given.
PlayheadTimes == { 2 * k : k \in 1..MaxPlayhead }

\* ---------------------------------------------------------- data model
effectiveDuration(e) == e.duration - e.trimStart - e.trimEnd
effectiveStart(e) == e.startTime
effectiveEnd(e) == e.startTime + effectiveDuration(e)

Max(a, b) == IF a >= b THEN a ELSE b

\* tracks.find((t) => t.id === trackId): the first match, or none.
HasTrack(trks, tid) == \E i \in 1..Len(trks) : trks[i].id = tid
TrackIndex(trks, tid) ==
    CHOOSE i \in 1..Len(trks) :
        /\ trks[i].id = tid
        /\ \A j \in 1..(i - 1) : trks[j].id # tid
FindTrack(trks, tid) == trks[TrackIndex(trks, tid)]

\* track.elements.find((c) => c.id === elementId)
HasElementIn(els, eid) == \E i \in 1..Len(els) : els[i].id = eid
ElementIndex(els, eid) ==
    CHOOSE i \in 1..Len(els) :
        /\ els[i].id = eid
        /\ \A j \in 1..(i - 1) : els[j].id # eid
HasElement(trks, tid, eid) ==
    HasTrack(trks, tid) /\ HasElementIn(FindTrack(trks, tid).elements, eid)
FindElement(trks, tid, eid) ==
    LET els == FindTrack(trks, tid).elements IN els[ElementIndex(els, eid)]

\* Every (trackId, elementId) pair of an element that exists.
ElementRefs(trks) ==
    UNION { { [trackId |-> trks[i].id, elementId |-> trks[i].elements[j].id] :
                j \in 1..Len(trks[i].elements) } : i \in 1..Len(trks) }

AllElements(trks) ==
    UNION { { trks[i].elements[j] : j \in 1..Len(trks[i].elements) } : i \in 1..Len(trks) }

\* Replaces the elements of track tid (every track with that id, as a map
\* over the track list does).
WithElements(trks, tid, els) ==
    [i \in 1..Len(trks) |->
        IF trks[i].id = tid THEN [trks[i] EXCEPT !.elements = els] ELSE trks[i]]

\* ------------------------------------------- timeline store operations
\* addTrack(type) -> trackId: an empty track appended to the track list.
addTrack(trks, type, tid) ==
    Append(trks, [id |-> tid, type |-> type, elements |-> <<>>])

\* An addElementToTrack that numbers the elements of a track by their
\* count: the deviation AddAppendsFresh detects.
addElementToTrackCounted(trks, tid, spec, nid) ==
    IF ~HasTrack(trks, tid) THEN trks
    ELSE WithElements(trks, tid,
            Append(FindTrack(trks, tid).elements,
                   [id |-> Len(FindTrack(trks, tid).elements) + 1,
                    mediaId |-> spec.mediaId,
                    startTime |-> spec.startTime, duration |-> spec.duration,
                    trimStart |-> spec.trimStart, trimEnd |-> spec.trimEnd]))

\* addElementToTrack(trackId, elementSpec): appends the element with a
\* fresh id; fails (nothing changes) when the track is absent.
addElementToTrack(trks, tid, spec, nid) ==
    IF ~HasTrack(trks, tid) THEN trks
    ELSE WithElements(trks, tid,
            Append(FindTrack(trks, tid).elements,
                   [id |-> nid, mediaId |-> spec.mediaId,
                    startTime |-> spec.startTime, duration |-> spec.duration,
                    trimStart |-> spec.trimStart, trimEnd |-> spec.trimEnd]))

\* removeElementFromTrack(trackId, elementId): deletes the element; no
\* other element moves.
removeElementFromTrack(trks, tid, eid) ==
    IF ~HasTrack(trks, tid) THEN trks
    ELSE WithElements(trks, tid,
            SelectSeq(FindTrack(trks, tid).elements, LAMBDA e : e.id # eid))

\* A ripple that moves every element starting at or after the removed
\* element's start, not its end: the deviation RippleLeavesTheRest detects.
RippleShiftFromStart(e, removed) ==
    IF e.startTime >= removed.startTime
    THEN [e EXCEPT !.startTime = e.startTime - effectiveDuration(removed)]
    ELSE e

\* A removeTrack that empties the track and leaves it in the list: the
\* deviation RemoveTrackRemovesItsElements detects.
removeTrackElementsOnly(trks, tid) == WithElements(trks, tid, << >>)

\* removeTrack(trackId): removes the track and, with it, its elements;
\* nothing changes when the track is absent.
removeTrack(trks, tid) == SelectSeq(trks, LAMBDA t : t.id # tid)

\* A ripple that moves the later elements back by the removed element's
\* whole duration, trimmed parts included: the deviation
\* StartTimesNeverNegative detects.
RippleShiftByDuration(e, removed) ==
    IF e.startTime >= effectiveEnd(removed)
    THEN [e EXCEPT !.startTime = e.startTime - removed.duration]
    ELSE e

\* The shift of one remaining element of the rippled track.
RippleShift(e, removed) ==
    IF e.startTime >= effectiveEnd(removed)
    THEN [e EXCEPT !.startTime = e.startTime - effectiveDuration(removed)]
    ELSE e

\* removeElementFromTrackWithRipple(trackId, elementId): deletes the
\* element and moves every other element of the same track that starts at
\* or after its effective end back by its effective duration.
removeElementFromTrackWithRipple(trks, tid, eid) ==
    IF ~HasElement(trks, tid, eid) THEN trks
    ELSE LET removed == FindElement(trks, tid, eid)
             rest == SelectSeq(FindTrack(trks, tid).elements,
                               LAMBDA e : e.id # eid)
         IN WithElements(trks, tid,
                [i \in 1..Len(rest) |-> RippleShift(rest[i], removed)])

\* A boundary check that forgets the element's end: the deviation
\* TrimInvariant detects.
WithinElementNoEnd(e, atTime) == effectiveStart(e) < atTime

\* A boundary check that lets the two boundaries through: the deviation
\* SplitOutsideChangesNothing detects.
WithinElementClosed(e, atTime) ==
    effectiveStart(e) <= atTime /\ atTime <= effectiveEnd(e)

\* The boundary check of the three split operations.
WithinElement(e, atTime) ==
    effectiveStart(e) < atTime /\ atTime < effectiveEnd(e)

\* The left half of a split: trimEnd grows so that it ends at atTime.
LeftPart(e, atTime) ==
    [e EXCEPT !.trimEnd = e.trimEnd + (effectiveEnd(e) - atTime)]

\* A right half that keeps the trimStart of the whole: the deviation
\* SplitKeepsMediaAndTrims detects.
RightPartUntrimmed(e, atTime) == [e EXCEPT !.startTime = atTime]

\* The right half of a split: starts at atTime, trimStart grows by the
\* part cut off.
RightPart(e, atTime) ==
    [e EXCEPT !.startTime = atTime,
              !.trimStart = e.trimStart + (atTime - effectiveStart(e))]

\* splitElement(trackId, elementId, atTime) -> newElementId | null
splitElement(trks, tid, eid, atTime, nid) ==
    IF ~HasElement(trks, tid, eid) THEN [tracks |-> trks, ret |-> NoId]
    ELSE LET els == FindTrack(trks, tid).elements
             i == ElementIndex(els, eid)
             e == els[i]
         IN IF ~WithinElement(e, atTime) THEN [tracks |-> trks, ret |-> NoId]
            ELSE [tracks |->
                    WithElements(trks, tid,
                        SubSeq(els, 1, i - 1)
                        \o << LeftPart(e, atTime),
                              [RightPart(e, atTime) EXCEPT !.id = nid] >>
                        \o SubSeq(els, i + 1, Len(els))),
                  ret |-> nid]

\* splitAndKeepLeft(trackId, elementId, atTime)
splitAndKeepLeft(trks, tid, eid, atTime) ==
    IF ~HasElement(trks, tid, eid) THEN trks
    ELSE LET els == FindTrack(trks, tid).elements
             i == ElementIndex(els, eid)
         IN IF ~WithinElement(els[i], atTime) THEN trks
            ELSE WithElements(trks, tid,
                    [els EXCEPT ![i] = LeftPart(els[i], atTime)])

\* splitAndKeepRight(trackId, elementId, atTime)
splitAndKeepRight(trks, tid, eid, atTime) ==
    IF ~HasElement(trks, tid, eid) THEN trks
    ELSE LET els == FindTrack(trks, tid).elements
             i == ElementIndex(els, eid)
         IN IF ~WithinElement(els[i], atTime) THEN trks
            ELSE WithElements(trks, tid,
                    [els EXCEPT ![i] = RightPart(els[i], atTime)])

\* The audio tracks separateAudio may reuse.
AudioTracks(trks) == { trks[i].id : i \in { j \in 1..Len(trks) : trks[j].type = "audio" } }

\* separateAudio(trackId, elementId): valid only for an element of a media
\* track; the audio element goes to audio track `target` when that track
\* exists (reuse), and to a new audio track with id `target` otherwise.
separateAudio(trks, tid, eid, nid, target) ==
    IF ~HasElement(trks, tid, eid) \/ FindTrack(trks, tid).type # "media"
    THEN [tracks |-> trks, ret |-> NoId]
    ELSE LET e == FindElement(trks, tid, eid)
             audio == [e EXCEPT !.id = nid]
         IN [tracks |->
                IF target \in AudioTracks(trks)
                THEN WithElements(trks, target,
                        Append(FindTrack(trks, target).elements, audio))
                ELSE Append(trks, [id |-> target, type |-> "audio",
                                   elements |-> << audio >>]),
             ret |-> nid]

\* getTotalDuration(): the latest effective end over all elements of all
\* tracks, 0 for an empty timeline.
RECURSIVE MaxOf(_)
MaxOf(S) ==
    IF S = {} THEN 0
    ELSE LET x == CHOOSE y \in S : TRUE IN Max(x, MaxOf(S \ {x}))
getTotalDuration(trks) == MaxOf({ effectiveEnd(e) : e \in AllElements(trks) })

\* ---------------------------------------------------------------- state
VARIABLES
    tracks,                \* timeline store: the track list
    selectedElements,      \* timeline store: sequence of (trackId, elementId)
    rippleEditingEnabled,  \* timeline store: the ripple editing toggle
    duration,              \* playback store: the playback duration
    nextId,                \* the next id the id generator gives
    effectPending,         \* the track list changed and the effects have not run yet
    last,                  \* the last command: its name, inputs, answer and what it removed and moved
    mouseTracking,         \* component: mouseTrackingRef.current
    isSelecting,           \* selection box: a selection-box drag is in progress
    justFinishedSelecting, \* selection box: a selection-box drag has just ended
    playbackTime,          \* playback store: currentTime as the pointer events set it, in ticks
    clock,                 \* the time stamp of the latest pointer event, in ms
    lastClick,             \* the last click event, what it met and what it did
    mediaItems,            \* media store: the media list
    activeProject,         \* project store: the id of the active project, 0 when there is none
    drop,                  \* the file drop being handled: where handleDrop stands and what it holds
    isDragging,            \* timeline store: dragState.isDragging
    snappingEnabled,       \* timeline store: the snapping toggle
    currentSnapPoint,      \* component: the snap point the tracks reported last
    dragCounter,           \* component: dragCounterRef.current
    isDragOver,            \* component: the drop overlay is shown
    lastDrag               \* the last dragenter, dragleave or drop event and what it met

\* What the pointer events of the timeline read and write.
clickVars == << mouseTracking, isSelecting, justFinishedSelecting,
                playbackTime, clock, lastClick >>

\* What a drop of files reads and writes besides the tracks.
dropVars == << mediaItems, activeProject, drop >>

\* What the snap indicator is computed from.
snapVars == << isDragging, snappingEnabled, currentSnapPoint >>

\* What the drag events of the timeline read and write.
dragVars == << dragCounter, isDragOver, lastDrag >>

\* The state outside the timeline store and the playback duration.
viewVars == << clickVars, dropVars, snapVars, dragVars >>

vars == << tracks, selectedElements, rippleEditingEnabled, duration,
           nextId, effectPending, last, viewVars >>

NoToast == "none"

\* What is known of the last command: its name, inputs and answer, the
\* elements it removed and the ids of the elements it moved.  The keep-one-
\* side commands record the playhead only when they cut.
Command(op, tid, eid, atTime, ret, toast, newTracks) ==
    [op |-> op, trackId |-> tid, elementId |-> eid, atTime |-> atTime,
     ret |-> ret, toast |-> toast,
     removed |-> { r \in ElementRefs(tracks) :
                     ~HasElement(newTracks, r.trackId, r.elementId) },
     moved |-> { r \in ElementRefs(tracks) :
                   /\ HasElement(newTracks, r.trackId, r.elementId)
                   /\ FindElement(newTracks, r.trackId, r.elementId).startTime
                        # FindElement(tracks, r.trackId, r.elementId).startTime }]

\* No command yet, or a user event that is no command on the tracks.
NoCommand == [op |-> "none", trackId |-> 0, elementId |-> 0, atTime |-> 0,
              ret |-> NoId, toast |-> NoToast, removed |-> {}, moved |-> {}]

\* useRef({ isMouseDown: false, downX: 0, downY: 0, downTime: 0 })
NoTracking == [isMouseDown |-> FALSE, downX |-> 0, downY |-> 0, downTime |-> 0]

\* No click yet, or an event that is no click.
NoClick == [target |-> "none", clientX |-> 0, clientY |-> 0, timeStamp |-> 0,
            tracking |-> NoTracking, selecting |-> FALSE,
            selectedBefore |-> << >>, trackCleared |-> FALSE,
            cleared |-> FALSE, seeked |-> FALSE, time |-> 0]

\* No pointer event has been seen and the playhead is at the origin.
InitPointer ==
    /\ mouseTracking = NoTracking
    /\ isSelecting = FALSE
    /\ justFinishedSelecting = FALSE
    /\ playbackTime = 0
    /\ clock = 0
    /\ lastClick = NoClick

\* No drop is being handled.
NoDrop == [pc |-> "idle", project |-> 0, files |-> 0, items |-> << >>,
           i |-> 0, mediaIds |-> << >>, toast |-> NoToast]

\* A project is open, its media list is empty and nothing has been dropped.
InitMedia ==
    /\ mediaItems = << >>
    /\ activeProject = 1
    /\ drop = NoDrop

\* useState<SnapPoint | null>(null)
NoSnapPoint == [type |-> "none", time |-> 0]

\* No drag event yet.
NoDrag == [event |-> "none", internal |-> FALSE, counterBefore |-> 0,
           overBefore |-> FALSE, created |-> FALSE, toast |-> NoToast]

\* Nothing is dragged, snapping is on, and the drop overlay is hidden.
InitGestures ==
    /\ isDragging = FALSE
    /\ snappingEnabled = TRUE
    /\ currentSnapPoint = NoSnapPoint
    /\ dragCounter = 0
    /\ isDragOver = FALSE
    /\ lastDrag = NoDrag

Init ==
    /\ tracks = << >>
    /\ selectedElements = << >>
    /\ rippleEditingEnabled = FALSE
    /\ duration = MinDuration
    /\ nextId = 1
    /\ effectPending = FALSE
    /\ last = NoCommand
    /\ InitPointer
    /\ InitMedia
    /\ InitGestures

\* A store update re-renders the component, and the effects that depend on
\* the track list run before the next user event is handled.
Changed(newTracks) == newTracks # tracks

\* The first entry of a selection, for the record of a command.
FirstTrackId(sel) == IF Len(sel) > 0 THEN sel[1].trackId ELSE 0
FirstElementId(sel) == IF Len(sel) > 0 THEN sel[1].elementId ELSE 0

\* A handler that hands the element's start to the store instead of the
\* playhead: the deviation SplitCoversRange detects.
SplitSelectedEntryAtStart(snap, st, entry, ct) ==
    IF ~HasElement(snap, entry.trackId, entry.elementId) THEN st
    ELSE LET element == FindElement(snap, entry.trackId, entry.elementId)
             effStart == element.startTime
             effEnd == element.startTime
                         + (element.duration - element.trimStart - element.trimEnd)
         IN IF ct > effStart /\ ct < effEnd
            THEN LET r == splitElement(st.tracks, entry.trackId,
                                       entry.elementId, effStart, st.nextId)
                 IN IF r.ret # NoId
                    THEN [tracks |-> r.tracks, nextId |-> st.nextId + 1,
                          splitCount |-> st.splitCount + 1]
                    ELSE [st EXCEPT !.tracks = r.tracks]
            ELSE st

\* ------------------------------------------------- toolbar: split
\* One turn of the forEach of handleSplitSelected.  `snap` is the track
\* list the handler closed over, `st` the store and the count so far.
SplitSelectedEntry(snap, st, entry, ct) ==
    IF ~HasElement(snap, entry.trackId, entry.elementId) THEN st
    ELSE LET element == FindElement(snap, entry.trackId, entry.elementId)
             effStart == element.startTime
             effEnd == element.startTime
                         + (element.duration - element.trimStart - element.trimEnd)
         IN IF ct > effStart /\ ct < effEnd
            THEN LET r == splitElement(st.tracks, entry.trackId,
                                       entry.elementId, ct, st.nextId)
                 IN IF r.ret # NoId
                    THEN [tracks |-> r.tracks, nextId |-> st.nextId + 1,
                          splitCount |-> st.splitCount + 1]
                    ELSE [st EXCEPT !.tracks = r.tracks]
            ELSE st

RECURSIVE SplitSelectedFrom(_, _, _, _, _)
SplitSelectedFrom(snap, st, sel, i, ct) ==
    IF i > Len(sel) THEN st
    ELSE SplitSelectedFrom(snap, SplitSelectedEntry(snap, st, sel[i], ct),
                           sel, i + 1, ct)

\* A split command that stops after the first entry of the selection: the
\* deviation SplitsEveryElementUnderPlayhead detects.
SplitSelectedFirstOnly(trks, sel, ct, nid) ==
    IF Len(sel) = 0
    THEN [tracks |-> trks, selectedElements |-> sel, nextId |-> nid,
          splitCount |-> 0, toast |-> NoToast]
    ELSE LET st == SplitSelectedEntry(trks,
                      [tracks |-> trks, nextId |-> nid, splitCount |-> 0],
                      sel[1], ct)
         IN [tracks |-> st.tracks, selectedElements |-> sel,
             nextId |-> st.nextId, splitCount |-> st.splitCount,
             toast |-> IF st.splitCount = 0
                       THEN "Playhead must be within selected elements to split"
                       ELSE NoToast]

\* handleSplitSelected: the store after it, the number of splits, the toast.
SplitSelected(trks, sel, ct, nid) ==
    IF Len(sel) = 0
    THEN [tracks |-> trks, selectedElements |-> sel, nextId |-> nid,
          splitCount |-> 0, toast |-> NoToast]
    ELSE LET st == SplitSelectedFrom(trks,
                      [tracks |-> trks, nextId |-> nid, splitCount |-> 0],
                      sel, 1, ct)
         IN [tracks |-> st.tracks, selectedElements |-> sel,
             nextId |-> st.nextId, splitCount |-> st.splitCount,
             toast |-> IF st.splitCount = 0
                       THEN "Playhead must be within selected elements to split"
                       ELSE NoToast]

handleSplitSelected ==
    /\ ~effectPending
    /\ \E currentTime \in PlayheadTimes :
       LET r == SplitSelected(tracks, selectedElements, currentTime, nextId)
       IN /\ r.nextId <= MaxIds + 1
          /\ tracks' = r.tracks
          /\ selectedElements' = r.selectedElements
          /\ nextId' = r.nextId
          /\ effectPending' = Changed(r.tracks)
          /\ last' = Command("handleSplitSelected",
                             FirstTrackId(selectedElements),
                             FirstElementId(selectedElements),
                             currentTime, r.splitCount, r.toast, r.tracks)
    /\ UNCHANGED << rippleEditingEnabled, duration >>

\* A duplicate that leaves no gap after the original: the deviation
\* DuplicateOne detects.
DuplicateSelectedNoGap(trks, sel, nid) ==
    IF Len(sel) # 1
    THEN [tracks |-> trks, selectedElements |-> sel, ret |-> NoId]
    ELSE IF ~HasElement(trks, sel[1].trackId, sel[1].elementId)
    THEN [tracks |-> trks, selectedElements |-> << >>, ret |-> NoId]
    ELSE LET element == FindElement(trks, sel[1].trackId, sel[1].elementId)
         IN [tracks |-> addElementToTrack(trks, sel[1].trackId,
                            [element EXCEPT !.startTime = effectiveEnd(element)],
                            nid),
             selectedElements |-> << >>, ret |-> nid]

\* A duplicate without the canDuplicate check, which copies the first
\* selected element: the deviation DuplicateOfManyIsNoOp detects.
DuplicateSelectedFirst(trks, sel, nid) ==
    IF Len(sel) = 0
    THEN [tracks |-> trks, selectedElements |-> sel, ret |-> NoId]
    ELSE IF ~HasElement(trks, sel[1].trackId, sel[1].elementId)
    THEN [tracks |-> trks, selectedElements |-> << >>, ret |-> NoId]
    ELSE LET element == FindElement(trks, sel[1].trackId, sel[1].elementId)
         IN [tracks |-> addElementToTrack(trks, sel[1].trackId,
                            [element EXCEPT !.startTime =
                                effectiveEnd(element) + DuplicateGap],
                            nid),
             selectedElements |-> << >>, ret |-> nid]

\* ------------------------------------------------- toolbar: duplicate
\* handleDuplicateSelected: the store after it and the id of the copy.
DuplicateSelected(trks, sel, nid) ==
    IF Len(sel) = 0
    THEN [tracks |-> trks, selectedElements |-> sel, ret |-> NoId]
    ELSE IF ~(Len(sel) = 1)
    THEN [tracks |-> trks, selectedElements |-> sel, ret |-> NoId]
    ELSE LET entry == sel[1]
         IN IF ~HasElement(trks, entry.trackId, entry.elementId)
            THEN [tracks |-> trks, selectedElements |-> << >>, ret |-> NoId]
            ELSE LET element == FindElement(trks, entry.trackId, entry.elementId)
                     newStartTime ==
                         element.startTime
                         + (element.duration - element.trimStart - element.trimEnd)
                         + DuplicateGap
                 IN [tracks |-> addElementToTrack(trks, entry.trackId,
                                    [element EXCEPT !.startTime = newStartTime],
                                    nid),
                     selectedElements |-> << >>, ret |-> nid]

handleDuplicateSelected ==
    /\ ~effectPending
    /\ nextId <= MaxIds
    /\ LET r == DuplicateSelected(tracks, selectedElements, nextId)
       IN /\ tracks' = r.tracks
          /\ selectedElements' = r.selectedElements
          /\ nextId' = IF r.ret # NoId THEN nextId + 1 ELSE nextId
          /\ effectPending' = Changed(r.tracks)
          /\ last' = Command("handleDuplicateSelected",
                             FirstTrackId(selectedElements),
                             FirstElementId(selectedElements),
                             0, r.ret, NoToast, r.tracks)
    /\ UNCHANGED << rippleEditingEnabled, duration >>

\* A delete that never ripples: the deviation RippleShiftsLaterElements
\* detects.
DeleteSelectedEntryNoRipple(trks, entry, ripple) ==
    removeElementFromTrack(trks, entry.trackId, entry.elementId)

\* A delete that always ripples: the deviation RemoveDeletesOnlyThat
\* detects.
DeleteSelectedEntryAlwaysRipple(trks, entry, ripple) ==
    removeElementFromTrackWithRipple(trks, entry.trackId, entry.elementId)

\* ------------------------------------------------- toolbar: delete
\* One turn of the forEach of handleDeleteSelected.
DeleteSelectedEntry(trks, entry, ripple) ==
    IF ripple
    THEN removeElementFromTrackWithRipple(trks, entry.trackId, entry.elementId)
    ELSE removeElementFromTrack(trks, entry.trackId, entry.elementId)

RECURSIVE DeleteSelectedFrom(_, _, _, _)
DeleteSelectedFrom(trks, sel, i, ripple) ==
    IF i > Len(sel) THEN trks
    ELSE DeleteSelectedFrom(DeleteSelectedEntry(trks, sel[i], ripple),
                            sel, i + 1, ripple)

\* A delete that leaves the selection: the deviation
\* DeleteAndDuplicateClearSelection detects.
DeleteSelectedKeepSelection(trks, sel, ripple) ==
    [tracks |-> DeleteSelectedFrom(trks, sel, 1, ripple),
     selectedElements |-> sel]

\* handleDeleteSelected: the store after it.
DeleteSelected(trks, sel, ripple) ==
    IF Len(sel) = 0 THEN [tracks |-> trks, selectedElements |-> sel]
    ELSE [tracks |-> DeleteSelectedFrom(trks, sel, 1, ripple),
          selectedElements |-> << >>]

handleDeleteSelected ==
    /\ ~effectPending
    /\ LET r == DeleteSelected(tracks, selectedElements, rippleEditingEnabled)
       IN /\ tracks' = r.tracks
          /\ selectedElements' = r.selectedElements
          /\ effectPending' = Changed(r.tracks)
          /\ last' = Command("handleDeleteSelected",
                             FirstTrackId(selectedElements),
                             FirstElementId(selectedElements),
                             0, NoId, NoToast, r.tracks)
    /\ UNCHANGED << rippleEditingEnabled, duration, nextId >>

\* Checks that answer an element that is not there with the playhead
\* message: the deviation StaleEntriesAreSkipped detects.
KeepSideCheckLoud(trks, sel, ct) ==
    IF Len(sel) # 1 THEN "Select exactly one element"
    ELSE IF ~HasElement(trks, sel[1].trackId, sel[1].elementId)
    THEN "Playhead must be within selected element"
    ELSE LET element == FindElement(trks, sel[1].trackId, sel[1].elementId)
             effStart == element.startTime
             effEnd == element.startTime
                         + (element.duration - element.trimStart - element.trimEnd)
         IN IF ct <= effStart \/ ct >= effEnd
            THEN "Playhead must be within selected element"
            ELSE ""

\* ------------------------------------- toolbar: split and keep one side
\* The checks handleSplitAndKeepLeft and handleSplitAndKeepRight make
\* before they call the store: "" when the call goes ahead, "skip" for the
\* silent return, else the toast.
KeepSideCheck(trks, sel, ct) ==
    IF Len(sel) # 1 THEN "Select exactly one element"
    ELSE IF ~HasElement(trks, sel[1].trackId, sel[1].elementId) THEN "skip"
    ELSE LET element == FindElement(trks, sel[1].trackId, sel[1].elementId)
             effStart == element.startTime
             effEnd == element.startTime
                         + (element.duration - element.trimStart - element.trimEnd)
         IN IF ct <= effStart \/ ct >= effEnd
            THEN "Playhead must be within selected element"
            ELSE ""

KeepSideToast(check) == IF check \in {"", "skip"} THEN NoToast ELSE check

\* A keep-left command that calls splitAndKeepRight: the deviation
\* KeepLeftTruncates detects.
SplitAndKeepLeftSelectedAsRight(trks, sel, ct) ==
    LET check == KeepSideCheck(trks, sel, ct)
    IN [tracks |-> IF check # "" THEN trks
                   ELSE splitAndKeepRight(trks, sel[1].trackId,
                                          sel[1].elementId, ct),
        selectedElements |-> sel, toast |-> KeepSideToast(check)]

\* handleSplitAndKeepLeft: the store after it and the toast.
SplitAndKeepLeftSelected(trks, sel, ct) ==
    LET check == KeepSideCheck(trks, sel, ct)
    IN [tracks |-> IF check # "" THEN trks
                   ELSE splitAndKeepLeft(trks, sel[1].trackId,
                                         sel[1].elementId, ct),
        selectedElements |-> sel, toast |-> KeepSideToast(check)]

\* A keep-right command that calls splitAndKeepLeft: the deviation
\* KeepRightMovesStart detects.
SplitAndKeepRightSelectedAsLeft(trks, sel, ct) ==
    LET check == KeepSideCheck(trks, sel, ct)
    IN [tracks |-> IF check # "" THEN trks
                   ELSE splitAndKeepLeft(trks, sel[1].trackId,
                                         sel[1].elementId, ct),
        selectedElements |-> sel, toast |-> KeepSideToast(check)]

\* handleSplitAndKeepRight: the store after it and the toast.
SplitAndKeepRightSelected(trks, sel, ct) ==
    LET check == KeepSideCheck(trks, sel, ct)
    IN [tracks |-> IF check # "" THEN trks
                   ELSE splitAndKeepRight(trks, sel[1].trackId,
                                          sel[1].elementId, ct),
        selectedElements |-> sel, toast |-> KeepSideToast(check)]

handleSplitAndKeepLeft ==
    /\ ~effectPending
    /\ \E currentTime \in PlayheadTimes :
       LET r == SplitAndKeepLeftSelected(tracks, selectedElements, currentTime)
       IN /\ tracks' = r.tracks
          /\ selectedElements' = r.selectedElements
          /\ effectPending' = Changed(r.tracks)
          /\ last' = Command("handleSplitAndKeepLeft",
                             FirstTrackId(selectedElements),
                             FirstElementId(selectedElements),
                             IF Changed(r.tracks) THEN currentTime ELSE 0,
                             NoId, r.toast, r.tracks)
    /\ UNCHANGED << rippleEditingEnabled, duration, nextId >>

handleSplitAndKeepRight ==
    /\ ~effectPending
    /\ \E currentTime \in PlayheadTimes :
       LET r == SplitAndKeepRightSelected(tracks, selectedElements, currentTime)
       IN /\ tracks' = r.tracks
          /\ selectedElements' = r.selectedElements
          /\ effectPending' = Changed(r.tracks)
          /\ last' = Command("handleSplitAndKeepRight",
                             FirstTrackId(selectedElements),
                             FirstElementId(selectedElements),
                             IF Changed(r.tracks) THEN currentTime ELSE 0,
                             NoId, r.toast, r.tracks)
    /\ UNCHANGED << rippleEditingEnabled, duration, nextId >>

\* A check that turns away text tracks only: the deviation
\* SeparateAudioRejects detects.
SeparateAudioCheckNotText(trks, sel) ==
    IF Len(sel) # 1 THEN "Select exactly one media element to separate audio"
    ELSE IF ~HasTrack(trks, sel[1].trackId)
            \/ FindTrack(trks, sel[1].trackId).type = "text"
         THEN "Select a media element to separate audio"
         ELSE ""

\* A check that asks for an audio track where the handler asks for a media
\* track: the deviation SeparateAudioKeepsTimes detects.
SeparateAudioCheckAudio(trks, sel) ==
    IF Len(sel) # 1 THEN "Select exactly one media element to separate audio"
    ELSE IF ~HasTrack(trks, sel[1].trackId)
            \/ FindTrack(trks, sel[1].trackId).type # "audio"
         THEN "Select a media element to separate audio"
         ELSE ""

\* ------------------------------------------------- toolbar: separate audio
\* The checks of handleSeparateAudio before it calls the store: "" when the
\* call goes ahead, else the toast.
SeparateAudioCheck(trks, sel) ==
    IF Len(sel) # 1 THEN "Select exactly one media element to separate audio"
    ELSE IF ~HasTrack(trks, sel[1].trackId)
            \/ FindTrack(trks, sel[1].trackId).type # "media"
         THEN "Select a media element to separate audio"
         ELSE ""

\* handleSeparateAudio: the store after it, the id of the audio element,
\* the toast.
SeparateAudioSelected(trks, sel, nid, target) ==
    LET check == SeparateAudioCheck(trks, sel)
    IN IF check # ""
       THEN [tracks |-> trks, selectedElements |-> sel, ret |-> NoId,
             toast |-> check]
       ELSE LET r == separateAudio(trks, sel[1].trackId, sel[1].elementId,
                                   nid, target)
            IN [tracks |-> r.tracks, selectedElements |-> sel, ret |-> r.ret,
                toast |-> NoToast]

\* Where the store may put the audio element: an audio track it reuses, or
\* a new one, whose id `newTid` is.  No choice is made when nothing is
\* separated.
AudioTargets(trks, sel, nid, newTid) ==
    IF SeparateAudioSelected(trks, sel, nid, newTid).ret = NoId
    THEN {newTid}
    ELSE AudioTracks(trks) \cup (IF newTid <= MaxIds THEN {newTid} ELSE {})

handleSeparateAudio ==
    /\ ~effectPending
    /\ nextId <= MaxIds
    /\ \E target \in AudioTargets(tracks, selectedElements, nextId, nextId + 1) :
         LET r == SeparateAudioSelected(tracks, selectedElements, nextId, target)
         IN /\ tracks' = r.tracks
            /\ selectedElements' = r.selectedElements
            /\ nextId' = IF r.ret = NoId THEN nextId
                         ELSE IF Len(r.tracks) # Len(tracks) THEN nextId + 2
                         ELSE nextId + 1
            /\ effectPending' = Changed(r.tracks)
            /\ last' = Command("handleSeparateAudio",
                               FirstTrackId(selectedElements),
                               FirstElementId(selectedElements),
                               0, r.ret, r.toast, r.tracks)
    /\ UNCHANGED << rippleEditingEnabled, duration >>

\* A recompute without the floor: the deviation DurationRecomputed detects.
PlaybackDurationNoFloor(trks) == getTotalDuration(trks)

\* ------------------------------------------------- duration effect
\* useEffect on [tracks]: setDuration(Math.max(getTotalDuration(), 10)).
PlaybackDuration(trks) == Max(getTotalDuration(trks), MinDuration)

durationEffect ==
    /\ effectPending
    /\ duration' = PlaybackDuration(tracks)
    /\ effectPending' = FALSE
    /\ UNCHANGED << tracks, selectedElements, rippleEditingEnabled, nextId, last >>

\* ------------------------------------------------- other user events
\* The selections the selection box can hand over: elements that exist, in
\* any order, each once.
Selections(trks) ==
    LET refs == ElementRefs(trks)
    IN { s \in UNION { [1..n -> refs] : n \in 0..MaxSel } :
           \A i, j \in 1..Len(s) : s[i] = s[j] => i = j }

\* onSelectionComplete: setSelectedElements(elements)
setSelectedElements(s) ==
    /\ ~effectPending
    /\ s # selectedElements
    /\ selectedElements' = s
    /\ last' = NoCommand
    /\ UNCHANGED << tracks, rippleEditingEnabled, duration, nextId,
                    effectPending >>

toggleRippleEditing ==
    /\ ~effectPending
    /\ rippleEditingEnabled' = ~rippleEditingEnabled
    /\ last' = NoCommand
    /\ UNCHANGED << tracks, selectedElements, duration, nextId,
                    effectPending >>

\* ------------------------------ store operations called by other views
\* (element menus, keyboard shortcuts, the media panel): each acts on an
\* element that exists; a split is made at the playhead.
callAddTrack(type) ==
    /\ ~effectPending
    /\ nextId <= MaxIds
    /\ tracks' = addTrack(tracks, type, nextId)
    /\ nextId' = nextId + 1
    /\ effectPending' = TRUE
    /\ last' = Command("addTrack", nextId, 0, 0, nextId, NoToast, tracks')
    /\ UNCHANGED << selectedElements, rippleEditingEnabled, duration >>

callAddElementToTrack(tid, spec) ==
    /\ ~effectPending
    /\ nextId <= MaxIds
    /\ HasTrack(tracks, tid)
    /\ tracks' = addElementToTrack(tracks, tid, spec, nextId)
    /\ nextId' = nextId + 1
    /\ effectPending' = TRUE
    /\ last' = Command("addElementToTrack", tid, nextId, 0, nextId,
                       NoToast, tracks')
    /\ UNCHANGED << selectedElements, rippleEditingEnabled, duration >>

callSplitElement(ref) ==
    /\ ~effectPending
    /\ nextId <= MaxIds
    /\ \E currentTime \in PlayheadTimes :
       LET r == splitElement(tracks, ref.trackId, ref.elementId, currentTime,
                             nextId)
       IN /\ tracks' = r.tracks
          /\ nextId' = IF r.ret # NoId THEN nextId + 1 ELSE nextId
          /\ effectPending' = Changed(r.tracks)
          /\ last' = Command("splitElement", ref.trackId, ref.elementId,
                             currentTime, r.ret, NoToast, r.tracks)
    /\ UNCHANGED << selectedElements, rippleEditingEnabled, duration >>

callRemoveElementFromTrack(ref) ==
    /\ ~effectPending
    /\ LET newTracks == removeElementFromTrack(tracks, ref.trackId,
                                               ref.elementId)
       IN /\ tracks' = newTracks
          /\ effectPending' = Changed(newTracks)
          /\ last' = Command("removeElementFromTrack", ref.trackId,
                             ref.elementId, 0, NoId, NoToast,
                             newTracks)
    /\ UNCHANGED << selectedElements, rippleEditingEnabled, duration, nextId >>

callRemoveElementFromTrackWithRipple(ref) ==
    /\ ~effectPending
    /\ LET newTracks == removeElementFromTrackWithRipple(tracks, ref.trackId,
                                                         ref.elementId)
       IN /\ tracks' = newTracks
          /\ effectPending' = Changed(newTracks)
          /\ last' = Command("removeElementFromTrackWithRipple", ref.trackId,
                             ref.elementId, 0, NoId, NoToast,
                             newTracks)
    /\ UNCHANGED << selectedElements, rippleEditingEnabled, duration, nextId >>

\* ------------------------------------------------- toolbar: test clip
\* The element spec of the Add Test Clip button.
TestClip ==
    [mediaId |-> "test", duration |-> DefaultTextDuration, startTime |-> 0,
     trimStart |-> 0, trimEnd |-> 0]

\* The button's onClick: addTrack("media"), then addElementToTrack on the
\* track id it answered.  tid and nid are the ids the store gives.
AddTestClip(trks, tid, nid) ==
    addElementToTrack(addTrack(trks, "media", tid), tid, TestClip, nid)

\* The button is rendered only while there is no track.
handleAddTestClip ==
    /\ ~effectPending
    /\ Len(tracks) = 0
    /\ nextId + 1 <= MaxIds
    /\ tracks' = AddTestClip(tracks, nextId, nextId + 1)
    /\ nextId' = nextId + 2
    /\ effectPending' = TRUE
    /\ last' = Command("handleAddTestClip", nextId, nextId + 1, 0, nextId + 1,
                       NoToast, tracks')
    /\ UNCHANGED << selectedElements, rippleEditingEnabled, duration >>

\* ------------------------------------ more calls of the store's operations
\* addElementToTrack with the id of a track that does not exist (a track
\* removed since the caller read it): the call fails.
callAddElementToMissingTrack(tid, spec) ==
    /\ ~effectPending
    /\ nextId <= MaxIds
    /\ ~HasTrack(tracks, tid)
    /\ LET newTracks == addElementToTrack(tracks, tid, spec, nextId)
       IN /\ tracks' = newTracks
          /\ nextId' = IF Changed(newTracks) THEN nextId + 1 ELSE nextId
          /\ effectPending' = Changed(newTracks)
          /\ last' = Command("addElementToTrack", tid, 0, 0, NoId, "NotFound",
                             newTracks)
    /\ UNCHANGED << selectedElements, rippleEditingEnabled, duration >>

\* removeTrack with any id, of a track that exists or not.
callRemoveTrack(tid) ==
    /\ ~effectPending
    /\ LET newTracks == removeTrack(tracks, tid)
       IN /\ tracks' = newTracks
          /\ effectPending' = Changed(newTracks)
          /\ last' = Command("removeTrack", tid, 0, 0, NoId, NoToast, newTracks)
    /\ UNCHANGED << selectedElements, rippleEditingEnabled, duration, nextId >>

\* ------------------------------------------------- timeline: pointer events
\* The pointer events of the tracks area and of the ruler.  Positions are
\* in pixels, time stamps in milliseconds, and the times of the playhead in
\* ticks, of which a second has TicksPerSecond: a tick divides a pixel, a
\* tenth of a second and a frame of 24 and of 30 frames per second.
TicksPerSecond == 600
TicksPerTenth == TicksPerSecond \div 10
\* TIMELINE_CONSTANTS.PIXELS_PER_SECOND
PixelsPerSecond == 50
\* The movement, in pixels, and the time, in ms, beyond which a pointer-up
\* is the end of a drag and not a click.
ClickPixels == 5
ClickMillis == 500
\* activeProject?.fps || 30
DefaultFps == 30
\* The latest time stamp of a pointer event.
MaxClock == 501

Abs(x) == IF x < 0 THEN 0 - x ELSE x
Min(a, b) == IF a <= b THEN a ELSE b

\* Where a pointer event lands: on the empty area of a track row, on an
\* element, on the tracks area outside the rows, or on the ruler.  The
\* playhead and the track labels are outside the tracks area and the ruler
\* area, and an event on them reaches no handler of this model.
TrackAreaTargets == {"track", "element", "tracks"}
ClickTargets == TrackAreaTargets \cup {"ruler"}
\* Where the pointer is, (clientX, clientY): the origin, the points 5 px
\* and 6 px from it, and a point right of the end of the timeline.
Points == {<<0, 0>>, <<5, 5>>, <<6, 0>>, <<0, 6>>, <<600, 0>>}
\* The time from one pointer event to the next, in ms.
TimeSteps == {0, 500, 501}
\* The frame rate of the active project; 0 when there is none.
ProjectFps == {0, 24, 30}
\* getBoundingClientRect().left of the scroll viewports; they are not
\* scrolled, and the zoom level is 1.
ViewportLeft == 1

PointerEvents(targets) ==
    { [target |-> t, clientX |-> p[1], clientY |-> p[2], timeStamp |-> clock + d] :
        t \in targets, p \in Points,
        d \in { d \in TimeSteps : clock + d <= MaxClock } }

\* The timeline the pointer events are studied on: one media track with one
\* element that ends after the 10 s floor of the playback duration.
ClickTracks ==
    addElementToTrack(addTrack(<< >>, "media", 1), 1,
                      [mediaId |-> "m1", duration |-> MediaDuration("m1"),
                       startTime |-> 98, trimStart |-> 0, trimEnd |-> 0], 2)

InitClick ==
    /\ tracks = ClickTracks
    /\ selectedElements = << >>
    /\ rippleEditingEnabled = FALSE
    /\ duration = PlaybackDuration(ClickTracks)
    /\ nextId = 3
    /\ effectPending = FALSE
    /\ last = NoCommand
    /\ InitPointer
    /\ InitMedia
    /\ InitGestures

\* What the pointer events leave alone.
timelineVars == << tracks, rippleEditingEnabled, duration, nextId,
                  effectPending, last, dropVars, snapVars, dragVars >>

\* handleTimelineMouseDown: the target is timeline background when it is
\* inside no element, not the playhead and not inside the track labels.
IsTimelineBackground(target) ==
    /\ target # "element"
    /\ target # "playhead"
    /\ target # "labels"

TimelineMouseDown(mt, ev) ==
    IF IsTimelineBackground(ev.target)
    THEN [isMouseDown |-> TRUE, downX |-> ev.clientX, downY |-> ev.clientY,
          downTime |-> ev.timeStamp]
    ELSE mt

\* onMouseDown of the tracks area: handleTimelineMouseDown, then the
\* selection box's handleSelectionMouseDown, which only arms the box.
handleTimelineMouseDown(ev) ==
    /\ mouseTracking' = TimelineMouseDown(mouseTracking, ev)
    /\ clock' = ev.timeStamp
    /\ lastClick' = NoClick
    /\ UNCHANGED << selectedElements, isSelecting, justFinishedSelecting,
                    playbackTime >>
    /\ UNCHANGED timelineVars

\* onMouseDown of the ruler area: handleSelectionMouseDown only; the pointer-
\* down is not recorded in mouseTrackingRef.
RulerAreaMouseDown(mt, ev) == mt

handleRulerAreaMouseDown(ev) ==
    /\ mouseTracking' = RulerAreaMouseDown(mouseTracking, ev)
    /\ clock' = ev.timeStamp
    /\ lastClick' = NoClick
    /\ UNCHANGED << selectedElements, isSelecting,
                    justFinishedSelecting, playbackTime >>
    /\ UNCHANGED timelineVars

\* snapTimeToFrame(time, fps): Math.round(time * fps) / fps.
snapTimeToFrame(time, fps) ==
    LET frame == TicksPerSecond \div fps
    IN ((2 * time + frame) \div (2 * frame)) * frame

\* The time handleTimelineContentClick seeks to.
ClickTime(ev, dur, fps) ==
    LET mouseX == ev.clientX - ViewportLeft
        scrollLeft == 0
        zoomLevel == 1
        rawTime == Max(0, Min(dur * TicksPerTenth,
                              ((mouseX + scrollLeft) * TicksPerSecond)
                                 \div (PixelsPerSecond * zoomLevel)))
        projectFps == IF fps # 0 THEN fps ELSE DefaultFps
    IN snapTimeToFrame(rawTime, projectFps)

\* A click test that forgets the time since the pointer-down: the deviation
\* ClickSeeksOnlyWhenGenuine detects.
ClickMovedNoTime(mt, ev) ==
    \/ Abs(ev.clientX - mt.downX) > ClickPixels
    \/ Abs(ev.clientY - mt.downY) > ClickPixels

\* deltaX > 5 || deltaY > 5 || deltaTime > 500
ClickMoved(mt, ev) ==
    \/ Abs(ev.clientX - mt.downX) > ClickPixels
    \/ Abs(ev.clientY - mt.downY) > ClickPixels
    \/ ev.timeStamp - mt.downTime > ClickMillis

ClickIgnored == [cleared |-> FALSE, seeked |-> FALSE, time |-> 0]

\* A handler that keeps the record of the pointer-down when it takes the
\* click for the end of a drag: the deviation PointerDownArmsOneClick
\* detects.
TrackingAfterClickKept(mt, ev) ==
    IF mt.isMouseDown /\ ClickMoved(mt, ev) THEN mt ELSE NoTracking

\* handleTimelineContentClick resets mouseTrackingRef before anything else.
TrackingAfterClick(mt, ev) == NoTracking

\* handleTimelineContentClick, after it has reset mouseTrackingRef: whether
\* it clears the selection, whether it seeks, and to what time.  The scroll
\* viewports are mounted.
TimelineContentClick(mt, ev, selecting, dur, fps) ==
    IF ~mt.isMouseDown THEN ClickIgnored
    ELSE IF ClickMoved(mt, ev) THEN ClickIgnored
    ELSE IF selecting THEN ClickIgnored
    ELSE IF ev.target = "element" THEN ClickIgnored
    ELSE IF ev.target = "playhead" THEN ClickIgnored
    ELSE IF ev.target = "labels"
         THEN [cleared |-> TRUE, seeked |-> FALSE, time |-> 0]
    ELSE [cleared |-> TRUE, seeked |-> TRUE, time |-> ClickTime(ev, dur, fps)]

\* onClick of a track row: clearSelectedElements() unless the target is
\* inside an element.  Only a click inside a row reaches it.
TrackClickClears(ev) == ev.target = "track"

\* A click event: the onClick of the track row it is in, if any, and then,
\* as the event bubbles, handleTimelineContentClick of the tracks area or of
\* the ruler area.
handleTimelineContentClick(ev, fps) ==
    LET trackCleared == TrackClickClears(ev)
        selecting == isSelecting \/ justFinishedSelecting
        out == TimelineContentClick(mouseTracking, ev, selecting, duration, fps)
    IN /\ mouseTracking' = TrackingAfterClick(mouseTracking, ev)
       /\ selectedElements' = IF trackCleared \/ out.cleared THEN << >>
                              ELSE selectedElements
       /\ playbackTime' = IF out.seeked THEN out.time ELSE playbackTime
       /\ clock' = ev.timeStamp
       /\ lastClick' = [target |-> ev.target, clientX |-> ev.clientX,
                        clientY |-> ev.clientY, timeStamp |-> ev.timeStamp,
                        tracking |-> mouseTracking, selecting |-> selecting,
                        selectedBefore |-> selectedElements,
                        trackCleared |-> trackCleared,
                        cleared |-> out.cleared, seeked |-> out.seeked,
                        time |-> out.time]
       /\ UNCHANGED << isSelecting, justFinishedSelecting >>
       /\ UNCHANGED timelineVars

\* The selection box (useSelectionBox): a drag over the tracks area or the
\* ruler area starts it, the pointer-up ends it and hands the elements in
\* the box to onSelectionComplete, and shortly after it forgets that it has
\* just ended.
selectionBoxStart ==
    /\ ~isSelecting
    /\ isSelecting' = TRUE
    /\ lastClick' = NoClick
    /\ UNCHANGED << mouseTracking, selectedElements, justFinishedSelecting,
                    playbackTime, clock >>
    /\ UNCHANGED timelineVars

selectionBoxEnd(s) ==
    /\ isSelecting
    /\ isSelecting' = FALSE
    /\ justFinishedSelecting' = TRUE
    /\ selectedElements' = s
    /\ lastClick' = NoClick
    /\ UNCHANGED << mouseTracking, playbackTime, clock >>
    /\ UNCHANGED timelineVars

selectionBoxSettled ==
    /\ justFinishedSelecting
    /\ justFinishedSelecting' = FALSE
    /\ lastClick' = NoClick
    /\ UNCHANGED << mouseTracking, selectedElements, isSelecting,
                    playbackTime, clock >>
    /\ UNCHANGED timelineVars

\* ------------------------------------------------- drop of files
\* handleDrop with files in the transfer.  The handler is asynchronous: it
\* awaits processMediaFiles and, for every processed item, addMediaItem of
\* the media store; between an await and its continuation other events are
\* handled.  drop.pc tells the await it stands at: "processing", "saving",
\* or "idle" before and "done" after the handler.  processMediaFiles, the
\* media store and addMediaToNewTrack are not among the source files.

\* Files in a dropped batch.
MaxFiles == 2
\* The projects that can be open; 0 is none.
Projects == {0, 1, 2}
\* The outcomes of addMediaItem: the item is saved; the save fails, the
\* store takes the item back and answers; the same and the call throws.
AddOutcomes == {"saved", "rolledBack", "thrown"}

\* processMediaFiles: the item made of file k, with a name and an object
\* URL of its own.
ProcessedItem(k) == [name |-> k, url |-> k]
\* The processed items of a batch of n files of which the files in kept
\* could be processed, in the order of the files.
ProcessedItems(n, kept) ==
    SelectSeq([k \in 1..n |-> ProcessedItem(k)], LAMBDA it : it.name \in kept)

\* The media item somebody else adds while the handler waits.
OtherItem == [name |-> 0, url |-> 0]

\* mediaItems.find((item) => item.name === name && item.url === url)
HasMedia(media, name, url) ==
    \E i \in 1..Len(media) : media[i].name = name /\ media[i].url = url
FindMedia(media, name, url) ==
    media[CHOOSE i \in 1..Len(media) :
            /\ media[i].name = name /\ media[i].url = url
            /\ \A j \in 1..(i - 1) :
                  ~(media[j].name = name /\ media[j].url = url)]

\* The media store's addMediaItem, its synchronous part: the item joins the
\* list with a fresh id.
CallAddMediaItem(media, item, nid) ==
    Append(media, [id |-> nid, name |-> item.name, url |-> item.url])
\* The store takes the item back.
WithoutMedia(media, id) == SelectSeq(media, LAMBDA m : m.id # id)

\* The timeline store's addMediaToNewTrack: a new media track with the item
\* as its one element, at the origin.
addMediaToNewTrack(trks, item, tid, eid) ==
    addElementToTrack(addTrack(trks, "media", tid), tid,
                      [mediaId |-> item.id, duration |-> MediaDuration(item.id),
                       startTime |-> 0, trimStart |-> 0, trimEnd |-> 0], eid)

\* The media item id is referenced by an element of the timeline.
MediaOnTrack(trks, id) == \E e \in AllElements(trks) : e.mediaId = id

\* A continuation that places the processed item without looking it up in
\* the media list: the deviation DropAddsWhollyOrNotAtAll detects.
PlaceProcessedItem(media, trks, item, id, nid) ==
    [tracks |-> addMediaToNewTrack(trks, [id |-> id], nid, nid + 1),
     nextId |-> nid + 2]

\* After await addMediaItem: the item is looked up in the current media
\* list by name and url and, when found, placed on a new track.
PlaceAddedItem(media, trks, item, id, nid) ==
    IF HasMedia(media, item.name, item.url)
    THEN [tracks |-> addMediaToNewTrack(trks,
                        FindMedia(media, item.name, item.url), nid, nid + 1),
          nextId |-> nid + 2]
    ELSE [tracks |-> trks, nextId |-> nid]

\* What a drop of files leaves alone.
editVars == << selectedElements, rippleEditingEnabled, duration, last,
               clickVars, snapVars, lastDrag >>

Awaiting == drop.pc \in {"processing", "saving"}

\* handleDrop, up to await processMediaFiles: without an active project it
\* shows a toast and returns.
handleDrop(n) ==
    /\ drop.pc = "idle"
    /\ drop' = IF activeProject = 0
               THEN [NoDrop EXCEPT !.pc = "done", !.files = n,
                                   !.toast = "No active project"]
               ELSE [NoDrop EXCEPT !.pc = "processing", !.files = n,
                                   !.project = activeProject]
    /\ isDragOver' = FALSE
    /\ dragCounter' = 0
    /\ UNCHANGED << tracks, nextId, effectPending, mediaItems, activeProject >>
    /\ UNCHANGED editVars

\* processMediaFiles throws: the catch shows a toast and the handler ends.
processMediaFilesFailed ==
    /\ drop.pc = "processing"
    /\ drop' = [drop EXCEPT !.pc = "done",
                            !.toast = "Failed to process dropped files"]
    /\ UNCHANGED << tracks, nextId, effectPending, mediaItems, activeProject >>
    /\ UNCHANGED << editVars, dragCounter, isDragOver >>

\* processMediaFiles answers with the items of the files in kept: the loop
\* starts and calls addMediaItem for the first item, or ends at once.
processMediaFilesDone(kept) ==
    /\ drop.pc = "processing"
    /\ LET items == ProcessedItems(drop.files, kept)
       IN IF Len(items) = 0
          THEN /\ drop' = [drop EXCEPT !.pc = "done"]
               /\ UNCHANGED << mediaItems, nextId >>
          ELSE /\ mediaItems' = CallAddMediaItem(mediaItems, items[1], nextId)
               /\ nextId' = nextId + 1
               /\ drop' = [drop EXCEPT !.pc = "saving", !.items = items,
                                       !.i = 1, !.mediaIds = << nextId >>]
    /\ UNCHANGED << tracks, effectPending, activeProject >>
    /\ UNCHANGED << editVars, dragCounter, isDragOver >>

\* await addMediaItem is over.  When it has thrown, the catch shows a toast
\* and the handler ends.  Else the item is looked up and placed, and the
\* loop calls addMediaItem for the next item or ends.
addMediaItemSettled(outcome) ==
    /\ drop.pc = "saving"
    /\ LET id == drop.mediaIds[drop.i]
           item == drop.items[drop.i]
           media == IF outcome = "saved" THEN mediaItems
                    ELSE WithoutMedia(mediaItems, id)
           r == PlaceAddedItem(media, tracks, item, id, nextId)
       IN IF outcome = "thrown"
          THEN /\ mediaItems' = media
               /\ drop' = [drop EXCEPT !.pc = "done",
                                       !.toast = "Failed to process dropped files"]
               /\ UNCHANGED << tracks, nextId, effectPending >>
          ELSE /\ tracks' = r.tracks
               /\ effectPending' = (effectPending \/ Changed(r.tracks))
               /\ IF drop.i < Len(drop.items)
                  THEN /\ mediaItems' = CallAddMediaItem(media,
                                            drop.items[drop.i + 1], r.nextId)
                       /\ nextId' = r.nextId + 1
                       /\ drop' = [drop EXCEPT !.i = drop.i + 1,
                                     !.mediaIds = Append(drop.mediaIds, r.nextId)]
                  ELSE /\ mediaItems' = media
                       /\ nextId' = r.nextId
                       /\ drop' = [drop EXCEPT !.pc = "done"]
    /\ UNCHANGED activeProject
    /\ UNCHANGED << editVars, dragCounter, isDragOver >>

\* While the handler waits, somebody else adds a media item.
otherMediaAdded ==
    /\ Awaiting
    /\ nextId <= MaxIds
    /\ ~HasMedia(mediaItems, OtherItem.name, OtherItem.url)
    /\ mediaItems' = CallAddMediaItem(mediaItems, OtherItem, nextId)
    /\ nextId' = nextId + 1
    /\ UNCHANGED << tracks, effectPending, activeProject, drop >>
    /\ UNCHANGED << editVars, dragCounter, isDragOver >>

\* While the handler waits, a media item that is on no track is removed
\* from the media list.
mediaItemRemoved(id) ==
    /\ Awaiting
    /\ \E i \in 1..Len(mediaItems) : mediaItems[i].id = id
    /\ ~MediaOnTrack(tracks, id)
    /\ mediaItems' = WithoutMedia(mediaItems, id)
    /\ UNCHANGED << tracks, nextId, effectPending, activeProject, drop >>
    /\ UNCHANGED << editVars, dragCounter, isDragOver >>

\* Another project is opened, or the project is closed: its media list and
\* its timeline, here empty, replace the ones on the screen.
projectChanged(p) ==
    /\ drop.pc # "done"
    /\ p # activeProject
    /\ activeProject' = p
    /\ mediaItems' = << >>
    /\ tracks' = << >>
    /\ effectPending' = (effectPending \/ Changed(<< >>))
    /\ UNCHANGED << nextId, drop >>
    /\ UNCHANGED << editVars, dragCounter, isDragOver >>

\* ------------------------------------------------- snap indicator
\* The snap points the tracks report while an element is dragged or
\* resized: the candidate and its type.
SnapTimes == {0, 2}
SnapPoints == [type : {"playhead", "element-edge"}, time : SnapTimes]

\* An indicator that forgets the drag state: the deviation
\* SnapIndicatorOnlyWhileDragging detects.
ShowSnapIndicatorStale(dragging, enabled, snapPoint) ==
    enabled /\ snapPoint # NoSnapPoint

\* showSnapIndicator =
\*   dragState.isDragging && snappingEnabled && currentSnapPoint !== null
ShowSnapIndicator(dragging, enabled, snapPoint) ==
    dragging /\ enabled /\ snapPoint # NoSnapPoint

\* The props of the render: isSnappingToPlayhead of the playhead, isVisible
\* of the snap indicator.
IsSnappingToPlayhead(dragging, enabled, snapPoint) ==
    ShowSnapIndicator(dragging, enabled, snapPoint) /\ snapPoint.type = "playhead"
SnapIndicatorIsVisible(dragging, enabled, snapPoint) ==
    ShowSnapIndicator(dragging, enabled, snapPoint)

\* What the snap indicator does not depend on.
otherThanSnapVars ==
    << tracks, selectedElements, rippleEditingEnabled, duration, nextId,
       effectPending, last, clickVars, dropVars, dragVars >>

\* The timeline store's startDrag and endDrag: a move or resize gesture of
\* an element begins and ends.
startDrag ==
    /\ ~isDragging
    /\ isDragging' = TRUE
    /\ UNCHANGED << snappingEnabled, currentSnapPoint >>
    /\ UNCHANGED otherThanSnapVars

endDrag ==
    /\ isDragging
    /\ isDragging' = FALSE
    /\ UNCHANGED << snappingEnabled, currentSnapPoint >>
    /\ UNCHANGED otherThanSnapVars

\* The toolbar's snapping button: toggleSnapping of the timeline store.
toggleSnapping ==
    /\ snappingEnabled' = ~snappingEnabled
    /\ UNCHANGED << isDragging, currentSnapPoint >>
    /\ UNCHANGED otherThanSnapVars

\* handleSnapPointChange: setCurrentSnapPoint(snapPoint)
handleSnapPointChange(snapPoint) ==
    /\ snapPoint # currentSnapPoint
    /\ currentSnapPoint' = snapPoint
    /\ UNCHANGED << isDragging, snappingEnabled >>
    /\ UNCHANGED otherThanSnapVars

\* ------------------------------------------------- drag events
\* The drag counter the drag events are followed to, up and down.
MaxDragDepth == 2
\* What is dragged over the timeline: an element of the timeline (the
\* transfer has the type application/x-timeline-element) or something from
\* outside.
DragKinds == {"element", "external"}
\* What is dropped: an element of the timeline, a text item, the media item
\* with an id, or nothing the handler knows.
DragDataIds == {1, 2}
DropPayloads ==
    {[kind |-> k, id |-> NoId] : k \in {"element", "text", "nothing"}}
        \cup {[kind |-> "media", id |-> i] : i \in DragDataIds}

\* The media list the drops are studied with.
DragMedia == << [id |-> 1, name |-> 1, url |-> 1] >>

InitDrag ==
    /\ tracks = << >>
    /\ selectedElements = << >>
    /\ rippleEditingEnabled = FALSE
    /\ duration = MinDuration
    /\ nextId = 2
    /\ effectPending = FALSE
    /\ last = NoCommand
    /\ InitPointer
    /\ mediaItems = DragMedia
    /\ activeProject = 1
    /\ drop = NoDrop
    /\ InitGestures

\* What the drag events leave alone.
otherThanDragVars ==
    << selectedElements, rippleEditingEnabled, duration, last, clickVars,
       dropVars, snapVars >>

\* handleDragEnter: the counter after it and the overlay flag.
DragEnter(counter, over, kind) ==
    IF kind = "element" THEN [counter |-> counter, over |-> over]
    ELSE [counter |-> counter + 1, over |-> TRUE]

\* handleDragLeave: the counter after it and the overlay flag.
DragLeave(counter, over, kind) ==
    IF kind = "element" THEN [counter |-> counter, over |-> over]
    ELSE [counter |-> counter - 1,
          over |-> IF counter - 1 = 0 THEN FALSE ELSE over]

handleDragEnter(kind) ==
    /\ dragCounter < MaxDragDepth
    /\ LET r == DragEnter(dragCounter, isDragOver, kind)
       IN /\ dragCounter' = r.counter
          /\ isDragOver' = r.over
          /\ lastDrag' = [NoDrag EXCEPT !.event = "dragenter",
                            !.internal = (kind = "element"),
                            !.counterBefore = dragCounter,
                            !.overBefore = isDragOver]
    /\ UNCHANGED << tracks, nextId, effectPending >>
    /\ UNCHANGED otherThanDragVars

handleDragLeave(kind) ==
    /\ dragCounter > 0 - MaxDragDepth
    /\ LET r == DragLeave(dragCounter, isDragOver, kind)
       IN /\ dragCounter' = r.counter
          /\ isDragOver' = r.over
          /\ lastDrag' = [NoDrag EXCEPT !.event = "dragleave",
                            !.internal = (kind = "element"),
                            !.counterBefore = dragCounter,
                            !.overBefore = isDragOver]
    /\ UNCHANGED << tracks, nextId, effectPending >>
    /\ UNCHANGED otherThanDragVars

\* The timeline store's addTextToNewTrack: a new text track with the text
\* as its one element, at the origin.
addTextToNewTrack(trks, tid, eid) ==
    addElementToTrack(addTrack(trks, "text", tid), tid,
                      [mediaId |-> NoId, duration |-> DefaultTextDuration,
                       startTime |-> 0, trimStart |-> 0, trimEnd |-> 0], eid)

HasMediaId(media, id) == \E i \in 1..Len(media) : media[i].id = id
FindMediaId(media, id) ==
    media[CHOOSE i \in 1..Len(media) :
            media[i].id = id /\ \A j \in 1..(i - 1) : media[j].id # id]

\* handleDrop without files in the transfer, after it has hidden the overlay
\* and reset the counter: the tracks after it and the toast.
DropItem(trks, media, payload, nid) ==
    IF payload.kind = "element" THEN [tracks |-> trks, toast |-> NoToast]
    ELSE IF payload.kind = "nothing" THEN [tracks |-> trks, toast |-> NoToast]
    ELSE IF payload.kind = "text"
    THEN [tracks |-> addTextToNewTrack(trks, nid, nid + 1), toast |-> NoToast]
    ELSE IF ~HasMediaId(media, payload.id)
    THEN [tracks |-> trks, toast |-> "Media item not found"]
    ELSE [tracks |-> addMediaToNewTrack(trks, FindMediaId(media, payload.id),
                                        nid, nid + 1),
          toast |-> NoToast]

\* handleDrop of an element of the timeline, an item of the media panel, or
\* nothing it knows.
handleDropItem(payload) ==
    /\ ~effectPending
    /\ LET r == DropItem(tracks, mediaItems, payload, nextId)
       IN /\ Changed(r.tracks) => nextId + 1 <= MaxIds
          /\ isDragOver' = FALSE
          /\ dragCounter' = 0
          /\ tracks' = r.tracks
          /\ nextId' = IF Changed(r.tracks) THEN nextId + 2 ELSE nextId
          /\ effectPending' = Changed(r.tracks)
          /\ lastDrag' = [event |-> "drop", internal |-> (payload.kind = "element"),
                          counterBefore |-> dragCounter,
                          overBefore |-> isDragOver,
                          created |-> Changed(r.tracks), toast |-> r.toast]
    /\ UNCHANGED otherThanDragVars

\* ------------------------------------------------- specification
Next ==
    \/ /\ handleSplitSelected
       /\ UNCHANGED viewVars
    \/ /\ handleDuplicateSelected
       /\ UNCHANGED viewVars
    \/ /\ handleDeleteSelected
       /\ UNCHANGED viewVars
    \/ /\ handleSplitAndKeepLeft
       /\ UNCHANGED viewVars
    \/ /\ handleSplitAndKeepRight
       /\ UNCHANGED viewVars
    \/ /\ handleSeparateAudio
       /\ UNCHANGED viewVars
    \/ /\ durationEffect
       /\ UNCHANGED viewVars
    \/ /\ \E s \in Selections(tracks) : setSelectedElements(s)
       /\ UNCHANGED viewVars
    \/ /\ toggleRippleEditing
       /\ UNCHANGED viewVars
    \/ /\ \E type \in AddedTrackTypes : callAddTrack(type)
       /\ UNCHANGED viewVars
    \/ /\ \E tid \in 1..MaxIds, spec \in ElementSpecs :
             callAddElementToTrack(tid, spec)
       /\ UNCHANGED viewVars
    \/ /\ \E ref \in ElementRefs(tracks) : callSplitElement(ref)
       /\ UNCHANGED viewVars
    \/ /\ \E ref \in ElementRefs(tracks) : callRemoveElementFromTrack(ref)
       /\ UNCHANGED viewVars
    \/ /\ \E ref \in ElementRefs(tracks) : callRemoveElementFromTrackWithRipple(ref)
       /\ UNCHANGED viewVars

Spec == Init /\ [][Next]_vars

\* The timeline with tracks of every type, tracks removed, the test clip and
\* failing calls; of the toolbar, the duplicate, separate-audio and delete
\* commands.
NextTracks ==
    \/ /\ \E type \in TrackTypes : callAddTrack(type)
       /\ UNCHANGED viewVars
    \/ /\ \E tid \in 1..MaxIds, spec \in ElementSpecs :
             callAddElementToTrack(tid, spec)
       /\ UNCHANGED viewVars
    \/ /\ \E tid \in 1..MaxIds, spec \in ElementSpecs :
             callAddElementToMissingTrack(tid, spec)
       /\ UNCHANGED viewVars
    \/ /\ \E tid \in 1..MaxIds : callRemoveTrack(tid)
       /\ UNCHANGED viewVars
    \/ /\ \E ref \in ElementRefs(tracks) : callRemoveElementFromTrack(ref)
       /\ UNCHANGED viewVars
    \/ /\ \E ref \in ElementRefs(tracks) : callSplitElement(ref)
       /\ UNCHANGED viewVars
    \/ /\ handleAddTestClip
       /\ UNCHANGED viewVars
    \/ /\ handleDuplicateSelected
       /\ UNCHANGED viewVars
    \/ /\ handleSeparateAudio
       /\ UNCHANGED viewVars
    \/ /\ handleDeleteSelected
       /\ UNCHANGED viewVars
    \/ /\ \E s \in Selections(tracks) : setSelectedElements(s)
       /\ UNCHANGED viewVars
    \/ /\ durationEffect
       /\ UNCHANGED viewVars

SpecTracks == Init /\ [][NextTracks]_vars

\* The pointer events of the timeline, on a timeline that does not change.
NextClick ==
    \/ \E ev \in PointerEvents(TrackAreaTargets) : handleTimelineMouseDown(ev)
    \/ \E ev \in PointerEvents({"ruler"}) : handleRulerAreaMouseDown(ev)
    \/ \E ev \in PointerEvents(ClickTargets), fps \in ProjectFps :
          handleTimelineContentClick(ev, fps)
    \/ selectionBoxStart
    \/ \E s \in Selections(tracks) : selectionBoxEnd(s)
    \/ selectionBoxSettled

SpecClick == InitClick /\ [][NextClick]_vars

\* A drop of files on the timeline and what happens while it is handled.
NextDrop ==
    \/ \E n \in 1..MaxFiles : handleDrop(n)
    \/ processMediaFilesFailed
    \/ \E kept \in SUBSET (1..MaxFiles) : processMediaFilesDone(kept)
    \/ \E outcome \in AddOutcomes : addMediaItemSettled(outcome)
    \/ otherMediaAdded
    \/ \E id \in 1..(nextId - 1) : mediaItemRemoved(id)
    \/ \E p \in Projects : projectChanged(p)
    \/ /\ durationEffect
       /\ UNCHANGED viewVars

SpecDrop == Init /\ [][NextDrop]_vars

\* The gestures on the timeline: the drag of an element with its snap
\* indicator, and what is dragged over and dropped on the timeline.
NextGestures ==
    \/ startDrag
    \/ endDrag
    \/ toggleSnapping
    \/ \E snapPoint \in SnapPoints \cup {NoSnapPoint} :
          handleSnapPointChange(snapPoint)
    \/ \E kind \in DragKinds : handleDragEnter(kind)
    \/ \E kind \in DragKinds : handleDragLeave(kind)
    \/ \E payload \in DropPayloads : handleDropItem(payload)
    \/ /\ durationEffect
       /\ UNCHANGED viewVars

SpecGestures == InitDrag /\ [][NextGestures]_vars

\* ------------------------------------------------------------ properties
\* The element a (trackId, elementId) pair names, and whether there is one.
Exists(trks, ref) == HasElement(trks, ref.trackId, ref.elementId)
ElementAt(trks, ref) == FindElement(trks, ref.trackId, ref.elementId)

\* The track list without the elements: ids, types and order of the tracks.
TrackShape(trks) ==
    [i \in 1..Len(trks) |-> [id |-> trks[i].id, type |-> trks[i].type]]

\* Every id in use, of a track or of an element.
IdsOf(trks) ==
    { trks[i].id : i \in 1..Len(trks) } \cup { e.id : e \in AllElements(trks) }

\* The entries of a selection.
Entries(sel) == { sel[i] : i \in 1..Len(sel) }

\* C1: in every state the timeline operations lead to, every element of
\* every track has trimStart + trimEnd <= duration (with trims that are not
\* negative): no effective duration is negative.
TrimInvariant ==
    \A e \in AllElements(tracks) :
        /\ e.trimStart >= 0
        /\ e.trimEnd >= 0
        /\ e.trimStart + e.trimEnd <= e.duration

\* A split has cut an element: one part is trimmed at its end, the other
\* at its start.
TrimInvariantWitness ==
    /\ last.op \in {"splitElement", "handleSplitSelected"}
    /\ \E e, f \in AllElements(tracks) : e.trimEnd > 0 /\ f.trimStart > 0

\* `new` is `old` with element `ref` cut at atTime in a left part, which
\* keeps the id, and a right part with the id newId.
SplitInTwo(old, new, ref, newId, atTime) ==
    LET right == [trackId |-> ref.trackId, elementId |-> newId]
    IN /\ newId # NoId
       /\ newId \notin IdsOf(old)
       /\ ElementRefs(new) = ElementRefs(old) \cup {right}
       /\ effectiveStart(ElementAt(new, ref)) = effectiveStart(ElementAt(old, ref))
       /\ effectiveEnd(ElementAt(new, ref)) = atTime
       /\ effectiveStart(ElementAt(new, right)) = atTime
       /\ effectiveEnd(ElementAt(new, right)) = effectiveEnd(ElementAt(old, ref))

\* C2: for every element E and every atTime strictly between E's effective
\* start and end, splitElement, called directly or by the split command on
\* a selection of E, leaves two elements, the original and a new one: the
\* left one runs from E's old effective start to atTime, the right one from
\* atTime to E's old effective end, without gap or overlap.
SplitCoversRange ==
    \A ref \in ElementRefs(tracks), atTime \in PlayheadTimes :
        LET E == ElementAt(tracks, ref)
            r == splitElement(tracks, ref.trackId, ref.elementId, atTime, nextId)
            h == SplitSelected(tracks, << ref >>, atTime, nextId)
        IN (effectiveStart(E) < atTime /\ atTime < effectiveEnd(E)) =>
              /\ SplitInTwo(tracks, r.tracks, ref, r.ret, atTime)
              /\ h.splitCount = 1
              /\ SplitInTwo(tracks, h.tracks, ref, nextId, atTime)

\* splitElement has just cut an element at the playhead: both parts are on
\* the track and meet at the playhead.
SplitCoversRangeWitness ==
    /\ last.op = "splitElement"
    /\ last.ret # NoId
    /\ HasElement(tracks, last.trackId, last.elementId)
    /\ HasElement(tracks, last.trackId, last.ret)
    /\ effectiveEnd(FindElement(tracks, last.trackId, last.elementId)) = last.atTime
    /\ effectiveStart(FindElement(tracks, last.trackId, last.ret)) = last.atTime

\* C3: splitElement called with atTime at or before the effective start, or
\* at or after the effective end, of its element returns no new id and
\* leaves every track and element as it is; the split command on a
\* selection of that element leaves the tracks and the selection as they
\* are.
SplitOutsideChangesNothing ==
    \A ref \in ElementRefs(tracks), atTime \in PlayheadTimes :
        LET E == ElementAt(tracks, ref)
            r == splitElement(tracks, ref.trackId, ref.elementId, atTime, nextId)
            h == SplitSelected(tracks, << ref >>, atTime, nextId)
        IN (atTime <= effectiveStart(E) \/ atTime >= effectiveEnd(E)) =>
              /\ r.ret = NoId
              /\ r.tracks = tracks
              /\ h.splitCount = 0
              /\ h.tracks = tracks
              /\ h.selectedElements = << ref >>
              /\ h.nextId = nextId

\* splitElement has just been called with the playhead exactly on the end
\* of its element, while elements were selected, and answered null.
SplitOutsideChangesNothingWitness ==
    /\ last.op = "splitElement"
    /\ last.ret = NoId
    /\ HasElement(tracks, last.trackId, last.elementId)
    /\ last.atTime = effectiveEnd(FindElement(tracks, last.trackId, last.elementId))
    /\ Len(selectedElements) > 0

\* `new` is `old` without element `ref`, and every other element of its
\* track that started at or after its effective end starts earlier by its
\* effective duration.
RippledBy(old, new, ref) ==
    LET R == ElementAt(old, ref)
    IN /\ ~Exists(new, ref)
       /\ \A o \in ElementRefs(old) \ {ref} :
             (o.trackId = ref.trackId
                /\ ElementAt(old, o).startTime >= effectiveEnd(R)) =>
                   /\ Exists(new, o)
                   /\ ElementAt(new, o).startTime
                        = ElementAt(old, o).startTime - effectiveDuration(R)

\* C4: removeElementFromTrackWithRipple, called directly or by the delete
\* command with ripple editing enabled, removes the element R and moves
\* every other element of the same track whose startTime >= R.effectiveEnd
\* back by exactly R.effectiveDuration.
RippleShiftsLaterElements ==
    \A ref \in ElementRefs(tracks) :
        /\ RippledBy(tracks,
                     removeElementFromTrackWithRipple(tracks, ref.trackId,
                                                      ref.elementId),
                     ref)
        /\ RippledBy(tracks, DeleteSelected(tracks, << ref >>, TRUE).tracks, ref)

\* A ripple removal has just moved an element back to the origin, where the
\* removed element started.
RippleShiftsLaterElementsWitness ==
    /\ last.op = "removeElementFromTrackWithRipple"
    /\ ~HasElement(tracks, last.trackId, last.elementId)
    /\ \E m \in last.moved : Exists(tracks, m) /\ ElementAt(tracks, m).startTime = 0

\* `new` is `old` without element `ref`; the tracks are the same; elements
\* of other tracks and elements that start before the removed element's
\* effective end are as they were, and the others differ in startTime only.
RippleFrame(old, new, ref) ==
    LET R == ElementAt(old, ref)
    IN /\ TrackShape(new) = TrackShape(old)
       /\ ElementRefs(new) = ElementRefs(old) \ {ref}
       /\ \A o \in ElementRefs(old) \ {ref} :
             /\ (o.trackId # ref.trackId
                   \/ ElementAt(old, o).startTime < effectiveEnd(R)) =>
                      ElementAt(new, o) = ElementAt(old, o)
             /\ [ElementAt(new, o) EXCEPT !.startTime = 0]
                  = [ElementAt(old, o) EXCEPT !.startTime = 0]

\* C5: removeElementFromTrackWithRipple, called directly or by the delete
\* command with ripple editing enabled, leaves every element of the same
\* track whose startTime < R.effectiveEnd (elements that overlap R too) and
\* every element of every other track as it was, and changes no field but
\* the startTime of the elements it moves.
RippleLeavesTheRest ==
    \A ref \in ElementRefs(tracks) :
        /\ RippleFrame(tracks,
                       removeElementFromTrackWithRipple(tracks, ref.trackId,
                                                        ref.elementId),
                       ref)
        /\ RippleFrame(tracks, DeleteSelected(tracks, << ref >>, TRUE).tracks, ref)

\* The delete command has just removed an element with ripple editing
\* enabled, and an element of the same track stayed where it was.
RippleLeavesTheRestWitness ==
    /\ last.op = "handleDeleteSelected"
    /\ rippleEditingEnabled
    /\ Cardinality(last.removed) = 1
    /\ \E o \in ElementRefs(tracks) :
          o.trackId = last.trackId /\ o \notin last.moved

\* `new` is `old` without the elements `refs`: the tracks are the same and
\* every other element is as it was.
RemovedOnly(old, new, refs) ==
    /\ TrackShape(new) = TrackShape(old)
    /\ ElementRefs(new) = ElementRefs(old) \ refs
    /\ \A o \in ElementRefs(new) : ElementAt(new, o) = ElementAt(old, o)

\* C6: removeElementFromTrack deletes exactly its element and leaves the
\* startTime and every other field of every remaining element, of that
\* track and of the others, as it was; with ripple editing disabled the
\* delete command does that for every selected element.
RemoveDeletesOnlyThat ==
    /\ \A ref \in ElementRefs(tracks) :
          RemovedOnly(tracks,
                      removeElementFromTrack(tracks, ref.trackId, ref.elementId),
                      {ref})
    /\ \A sel \in Selections(tracks) \cup {selectedElements} :
          Len(sel) > 0 =>
             RemovedOnly(tracks, DeleteSelected(tracks, sel, FALSE).tracks,
                         Entries(sel))

\* The delete command has just removed two selected elements with ripple
\* editing disabled, and an element is left.
RemoveDeletesOnlyThatWitness ==
    /\ last.op = "handleDeleteSelected"
    /\ ~rippleEditingEnabled
    /\ Cardinality(last.removed) = 2
    /\ ElementRefs(tracks) # {}

\* C7: the duplicate command with exactly one selected element, which
\* exists, adds exactly one element to the same track: its id is fresh; its
\* duration, trimStart, trimEnd and mediaId are the original's; its
\* startTime is the original's startTime + (duration - trimStart - trimEnd)
\* + 0.1 s; the original and every other element are as they were.
DuplicateOne ==
    \A ref \in ElementRefs(tracks) :
        LET original == ElementAt(tracks, ref)
            r == DuplicateSelected(tracks, << ref >>, nextId)
            copyRef == [trackId |-> ref.trackId, elementId |-> r.ret]
        IN /\ r.ret # NoId
           /\ r.ret \notin IdsOf(tracks)
           /\ TrackShape(r.tracks) = TrackShape(tracks)
           /\ ElementRefs(r.tracks) = ElementRefs(tracks) \cup {copyRef}
           /\ \A o \in ElementRefs(tracks) :
                 ElementAt(r.tracks, o) = ElementAt(tracks, o)
           /\ LET copy == ElementAt(r.tracks, copyRef)
              IN /\ copy.duration = original.duration
                 /\ copy.trimStart = original.trimStart
                 /\ copy.trimEnd = original.trimEnd
                 /\ copy.mediaId = original.mediaId
                 /\ copy.startTime
                      = original.startTime
                        + (original.duration - original.trimStart - original.trimEnd)
                        + DuplicateGap

\* The duplicate command has just copied a trimmed element: the copy is on
\* the track of the original.
DuplicateOneWitness ==
    /\ last.op = "handleDuplicateSelected"
    /\ last.ret # NoId
    /\ HasElement(tracks, last.trackId, last.elementId)
    /\ HasElement(tracks, last.trackId, last.ret)
    /\ FindElement(tracks, last.trackId, last.ret).trimEnd > 0

\* C8: the duplicate command with two or more selected elements, or with
\* none, is a no-op: it adds no element, changes no track and no element,
\* and leaves the selection.
DuplicateOfManyIsNoOp ==
    \A sel \in Selections(tracks) \cup {selectedElements} :
        Len(sel) # 1 =>
           LET r == DuplicateSelected(tracks, sel, nextId)
           IN /\ r.ret = NoId
              /\ r.tracks = tracks
              /\ r.selectedElements = sel

\* The duplicate command has just been given with two elements selected.
DuplicateOfManyIsNoOpWitness ==
    /\ last.op = "handleDuplicateSelected"
    /\ last.ret = NoId
    /\ Len(selectedElements) >= 2
    /\ \A i \in 1..Len(selectedElements) : Exists(tracks, selectedElements[i])

\* C9: once the duration effect has run after a change of the track list,
\* the playback duration is max(total duration, 10 s): it is never below
\* 10 s, it is at least the effective end of every element of every track,
\* it is exactly 10 s when there are no tracks or no elements, and it is
\* the floor or the effective end of some element.
DurationRecomputed ==
    ~effectPending =>
       /\ duration >= MinDuration
       /\ \A e \in AllElements(tracks) : duration >= effectiveEnd(e)
       /\ AllElements(tracks) = {} => duration = MinDuration
       /\ \/ duration = MinDuration
          \/ \E e \in AllElements(tracks) : duration = effectiveEnd(e)

\* The effect has run after a command on a timeline whose last element ends
\* after the 10 s floor.
DurationRecomputedWitness ==
    /\ ~effectPending
    /\ last.op # "none"
    /\ duration > MinDuration
    /\ \E e \in AllElements(tracks) : effectiveEnd(e) < MinDuration

\* `new` is `old` with the audio of element `ref` separated as element
\* newId: that element is on an audio track and has the startTime,
\* trimStart and trimEnd of the source, which is as it was.
AudioSeparated(old, new, ref, newId) ==
    /\ newId # NoId
    /\ newId \notin IdsOf(old)
    /\ \E a \in ElementRefs(new) :
          /\ a.elementId = newId
          /\ FindTrack(new, a.trackId).type = "audio"
          /\ ElementRefs(new) = ElementRefs(old) \cup {a}
          /\ ElementAt(new, a).startTime = ElementAt(old, ref).startTime
          /\ ElementAt(new, a).trimStart = ElementAt(old, ref).trimStart
          /\ ElementAt(new, a).trimEnd = ElementAt(old, ref).trimEnd
    /\ Exists(new, ref)
    /\ ElementAt(new, ref) = ElementAt(old, ref)

\* C10: separateAudio on an element of a media track, called directly or by
\* the separate-audio command on a selection of that element, puts an
\* element on an audio track, a new one or one that exists, with the
\* startTime, trimStart and trimEnd of the source element, whose own time
\* bounds stay as they were.
SeparateAudioKeepsTimes ==
    \A ref \in ElementRefs(tracks) :
        FindTrack(tracks, ref.trackId).type = "media" =>
           \A target \in AudioTracks(tracks) \cup {nextId + 1} :
              LET r == separateAudio(tracks, ref.trackId, ref.elementId,
                                     nextId, target)
                  h == SeparateAudioSelected(tracks, << ref >>, nextId, target)
              IN /\ AudioSeparated(tracks, r.tracks, ref, r.ret)
                 /\ AudioSeparated(tracks, h.tracks, ref, h.ret)
                 /\ h.toast = NoToast

\* The separate-audio command has just put the audio of a trimmed media
\* element on an audio track.
SeparateAudioKeepsTimesWitness ==
    /\ last.op = "handleSeparateAudio"
    /\ last.ret # NoId
    /\ HasElement(tracks, last.trackId, last.elementId)
    /\ FindTrack(tracks, last.trackId).type = "media"
    /\ \E a \in ElementRefs(tracks) :
          /\ a.elementId = last.ret
          /\ FindTrack(tracks, a.trackId).type = "audio"
          /\ ElementAt(tracks, a).trimEnd > 0
          /\ ElementAt(tracks, a).trimEnd
               = FindElement(tracks, last.trackId, last.elementId).trimEnd

\* Every (trackId, elementId) pair a selection entry can hold, of elements
\* that exist or not.
AnyRefs == [trackId : 1..MaxIds, elementId : 1..MaxIds]

\* The selections a command can meet: of elements that exist, the current
\* one, and single entries that name anything.
AnySelections(trks) ==
    Selections(trks) \cup {selectedElements} \cup { << r >> : r \in AnyRefs }

\* C11: the separate-audio command leaves every track and element as it is
\* (no audio track, no element added, no id given) when the selection does
\* not hold exactly one entry, when the entry's track or element does not
\* exist, or when the track is a text or an audio track; it reports the
\* failure with a message whenever the selection or the track is at fault.
SeparateAudioRejects ==
    \A sel \in AnySelections(tracks) :
        \A target \in AudioTracks(tracks) \cup {nextId + 1} :
            LET h == SeparateAudioSelected(tracks, sel, nextId, target)
                wrongTrack == \/ Len(sel) # 1
                              \/ ~HasTrack(tracks, sel[1].trackId)
                              \/ FindTrack(tracks, sel[1].trackId).type
                                   \in {"text", "audio"}
            IN /\ (wrongTrack \/ ~Exists(tracks, sel[1])) =>
                     /\ h.tracks = tracks
                     /\ h.ret = NoId
                     /\ h.selectedElements = sel
               /\ wrongTrack => h.toast # NoToast

\* The separate-audio command has just been given on an element of a text
\* track and answered with its message.
SeparateAudioRejectsWitness ==
    /\ last.op = "handleSeparateAudio"
    /\ last.ret = NoId
    /\ last.toast = "Select a media element to separate audio"
    /\ Len(selectedElements) = 1
    /\ Exists(tracks, selectedElements[1])
    /\ FindTrack(tracks, selectedElements[1].trackId).type = "text"

\* `new` is `old` but for element `ref`: same tracks, same elements, every
\* other element as it was, and `ref` with its id, mediaId and duration.
OnlyChanged(old, new, ref) ==
    /\ TrackShape(new) = TrackShape(old)
    /\ ElementRefs(new) = ElementRefs(old)
    /\ Len(FindTrack(new, ref.trackId).elements)
         = Len(FindTrack(old, ref.trackId).elements)
    /\ \A o \in ElementRefs(old) \ {ref} : ElementAt(new, o) = ElementAt(old, o)
    /\ ElementAt(new, ref).id = ElementAt(old, ref).id
    /\ ElementAt(new, ref).mediaId = ElementAt(old, ref).mediaId
    /\ ElementAt(new, ref).duration = ElementAt(old, ref).duration

\* `new` is `old` with element `ref` cut to end at atTime.
KeptLeft(old, new, ref, atTime) ==
    /\ OnlyChanged(old, new, ref)
    /\ ElementAt(new, ref).startTime = ElementAt(old, ref).startTime
    /\ ElementAt(new, ref).trimStart = ElementAt(old, ref).trimStart
    /\ ElementAt(new, ref).trimEnd > ElementAt(old, ref).trimEnd
    /\ effectiveEnd(ElementAt(new, ref)) = atTime

\* C12: for atTime strictly between the effective start and end of its
\* element, splitAndKeepLeft, called directly or by the keep-left command on
\* a selection of that element, only increases the element's trimEnd so
\* that it ends at atTime: startTime, trimStart and the number of elements
\* of the track are as before.  Outside that interval, and from the
\* toolbar when the selection is not exactly one element, nothing changes.
KeepLeftTruncates ==
    /\ \A ref \in ElementRefs(tracks), atTime \in PlayheadTimes :
          LET E == ElementAt(tracks, ref)
              new == splitAndKeepLeft(tracks, ref.trackId, ref.elementId, atTime)
              h == SplitAndKeepLeftSelected(tracks, << ref >>, atTime)
          IN /\ h.selectedElements = << ref >>
             /\ IF effectiveStart(E) < atTime /\ atTime < effectiveEnd(E)
                THEN /\ KeptLeft(tracks, new, ref, atTime)
                     /\ KeptLeft(tracks, h.tracks, ref, atTime)
                ELSE /\ new = tracks
                     /\ h.tracks = tracks
    /\ \A sel \in AnySelections(tracks), atTime \in PlayheadTimes :
          Len(sel) # 1 =>
             LET h == SplitAndKeepLeftSelected(tracks, sel, atTime)
             IN h.tracks = tracks /\ h.selectedElements = sel

\* The keep-left command has just cut its element, which now ends at the
\* playhead.
KeepLeftTruncatesWitness ==
    /\ last.op = "handleSplitAndKeepLeft"
    /\ last.atTime # 0
    /\ HasElement(tracks, last.trackId, last.elementId)
    /\ effectiveEnd(FindElement(tracks, last.trackId, last.elementId)) = last.atTime
    /\ FindElement(tracks, last.trackId, last.elementId).trimEnd > 0

\* `new` is `old` with element `ref` cut to start at atTime.
KeptRight(old, new, ref, atTime) ==
    /\ OnlyChanged(old, new, ref)
    /\ ElementAt(new, ref).startTime = atTime
    /\ ElementAt(new, ref).trimStart
         = ElementAt(old, ref).trimStart
           + (atTime - effectiveStart(ElementAt(old, ref)))
    /\ ElementAt(new, ref).trimEnd = ElementAt(old, ref).trimEnd
    /\ effectiveStart(ElementAt(new, ref)) = atTime
    /\ effectiveEnd(ElementAt(new, ref)) = effectiveEnd(ElementAt(old, ref))

\* C13: for atTime strictly between the effective start and end of its
\* element, splitAndKeepRight, called directly or by the keep-right command
\* on a selection of that element, sets the element's startTime to atTime
\* and increases trimStart by atTime minus the old effective start: the
\* effective end, trimEnd and the number of elements of the track are as
\* before.  Outside that interval, and from the toolbar when the selection
\* is not exactly one element, nothing changes.
KeepRightMovesStart ==
    /\ \A ref \in ElementRefs(tracks), atTime \in PlayheadTimes :
          LET E == ElementAt(tracks, ref)
              new == splitAndKeepRight(tracks, ref.trackId, ref.elementId, atTime)
              h == SplitAndKeepRightSelected(tracks, << ref >>, atTime)
          IN /\ h.selectedElements = << ref >>
             /\ IF effectiveStart(E) < atTime /\ atTime < effectiveEnd(E)
                THEN /\ KeptRight(tracks, new, ref, atTime)
                     /\ KeptRight(tracks, h.tracks, ref, atTime)
                ELSE /\ new = tracks
                     /\ h.tracks = tracks
    /\ \A sel \in AnySelections(tracks), atTime \in PlayheadTimes :
          Len(sel) # 1 =>
             LET h == SplitAndKeepRightSelected(tracks, sel, atTime)
             IN h.tracks = tracks /\ h.selectedElements = sel

\* The keep-right command has just cut its element, which now starts at
\* the playhead.
KeepRightMovesStartWitness ==
    /\ last.op = "handleSplitAndKeepRight"
    /\ last.atTime # 0
    /\ HasElement(tracks, last.trackId, last.elementId)
    /\ FindElement(tracks, last.trackId, last.elementId).startTime = last.atTime
    /\ FindElement(tracks, last.trackId, last.elementId).trimStart > 0

\* C14: removeTrack on a track that exists removes that track and all its
\* elements, none of which can be reached through any track afterwards, and
\* leaves every other track and its elements as they were; on an id that no
\* track has it leaves the track list as it is.
RemoveTrackRemovesItsElements ==
    \A tid \in 1..MaxIds :
        LET new == removeTrack(tracks, tid)
        IN IF HasTrack(tracks, tid)
           THEN /\ ~HasTrack(new, tid)
                /\ Len(new) = Len(tracks) - 1
                /\ \A i \in 1..Len(tracks) :
                      tracks[i].id # tid =>
                         \E j \in 1..Len(new) : new[j] = tracks[i]
                /\ \A i, j \in 1..Len(new) :
                      i < j =>
                         TrackIndex(tracks, new[i].id) < TrackIndex(tracks, new[j].id)
                /\ \A r \in ElementRefs(tracks) :
                      r.trackId = tid =>
                         \A o \in ElementRefs(new) : o.elementId # r.elementId
           ELSE new = tracks

\* removeTrack has just removed a track with an element, and another track
\* with an element is left.
RemoveTrackRemovesItsElementsWitness ==
    /\ last.op = "removeTrack"
    /\ last.removed # {}
    /\ ~HasTrack(tracks, last.trackId)
    /\ ElementRefs(tracks) # {}

\* Within every track the element ids are pairwise distinct.
ElementIdsDistinct(trks) ==
    \A i \in 1..Len(trks) :
        \A j, k \in 1..Len(trks[i].elements) :
            trks[i].elements[j].id = trks[i].elements[k].id => j = k

\* C15: addElementToTrack appends exactly one element, with the spec's
\* times and an id that no element of that track has, and leaves the rest
\* as it was, so that after any sequence of add, duplicate, split and
\* remove operations the element ids of each track are pairwise distinct;
\* with the id of a track that does not exist it changes no track and no
\* element.
AddAppendsFresh ==
    /\ ElementIdsDistinct(tracks)
    /\ \A tid \in 1..MaxIds, spec \in ElementSpecs \cup {TestClip} :
          LET new == addElementToTrack(tracks, tid, spec, nextId)
          IN IF ~HasTrack(tracks, tid) THEN new = tracks
             ELSE LET was == FindTrack(tracks, tid).elements
                      now == FindTrack(new, tid).elements
                  IN /\ TrackShape(new) = TrackShape(tracks)
                     /\ \A i \in 1..Len(tracks) :
                           tracks[i].id # tid => new[i] = tracks[i]
                     /\ Len(now) = Len(was) + 1
                     /\ SubSeq(now, 1, Len(was)) = was
                     /\ \A k \in 1..Len(was) : was[k].id # now[Len(now)].id
                     /\ now[Len(now)].startTime = spec.startTime
                     /\ now[Len(now)].duration = spec.duration
                     /\ now[Len(now)].trimStart = spec.trimStart
                     /\ now[Len(now)].trimEnd = spec.trimEnd
                     /\ now[Len(now)].mediaId = spec.mediaId
                     /\ ElementIdsDistinct(new)

\* addElementToTrack has just appended an element to a track that held
\* one, after something that had been given an id was removed.
AddAppendsFreshWitness ==
    /\ last.op = "addElementToTrack"
    /\ last.ret # NoId
    /\ HasTrack(tracks, last.trackId)
    /\ Len(FindTrack(tracks, last.trackId).elements) = 2
    /\ FindTrack(tracks, last.trackId).elements[2].id = last.ret
    /\ Cardinality(IdsOf(tracks)) < last.ret

\* The entries of a selection that name an element that exists.
LiveEntries(trks, sel) == SelectSeq(sel, LAMBDA r : Exists(trks, r))

\* Selections with an entry whose track or element does not exist: every
\* single such entry, the current selection when it has one, and pairs of
\* an element that exists with an entry that names its track and no
\* element of it, or its id and no track.
StaleSelections(trks) ==
    { << r >> : r \in { q \in AnyRefs : ~Exists(trks, q) } }
    \cup { sel \in {selectedElements} : LiveEntries(trks, sel) # sel }
    \cup UNION { { << v, [v EXCEPT !.elementId = nextId] >>,
                   << [v EXCEPT !.trackId = nextId], v >> } :
                 v \in ElementRefs(trks) }

\* C16 as amended: a toolbar command given with a selection entry whose
\* track or element no longer exists skips that entry and leaves the tracks
\* and elements as it leaves them without the entry (with nothing but such
\* entries: unchanged).  Keep-left, keep-right, duplicate and delete show
\* no message for it; split shows its error message when no selected
\* element was split, and separate-audio shows its error message when the
\* entry's track does not exist.
StaleEntriesAreSkipped ==
    \A sel \in StaleSelections(tracks) :
        LET live == LiveEntries(tracks, sel)
        IN /\ \A ct \in PlayheadTimes :
                 LET h == SplitSelected(tracks, sel, ct, nextId)
                 IN /\ h.tracks = SplitSelected(tracks, live, ct, nextId).tracks
                    /\ h.toast # NoToast <=> h.splitCount = 0
                    /\ live = << >> => h.tracks = tracks /\ h.toast # NoToast
           /\ \A ripple \in BOOLEAN :
                 DeleteSelected(tracks, sel, ripple).tracks
                    = DeleteSelected(tracks, live, ripple).tracks
           /\ Len(sel) = 1 =>
                 /\ DuplicateSelected(tracks, sel, nextId).tracks = tracks
                 /\ DuplicateSelected(tracks, sel, nextId).ret = NoId
                 /\ \A ct \in PlayheadTimes :
                       /\ SplitAndKeepLeftSelected(tracks, sel, ct).tracks = tracks
                       /\ SplitAndKeepLeftSelected(tracks, sel, ct).toast = NoToast
                       /\ SplitAndKeepRightSelected(tracks, sel, ct).tracks = tracks
                       /\ SplitAndKeepRightSelected(tracks, sel, ct).toast = NoToast
                 /\ \A target \in AudioTracks(tracks) \cup {nextId + 1} :
                       LET h == SeparateAudioSelected(tracks, sel, nextId, target)
                       IN /\ h.tracks = tracks
                          /\ h.ret = NoId
                          /\ h.toast # NoToast
                               <=> (\/ ~HasTrack(tracks, sel[1].trackId)
                                    \/ FindTrack(tracks, sel[1].trackId).type
                                         # "media")

\* The track of the only selected element was removed, and the duplicate
\* command has just been given: it added nothing.
StaleEntriesAreSkippedWitness ==
    /\ last.op = "handleDuplicateSelected"
    /\ last.ret = NoId
    /\ last.trackId # 0
    /\ ~HasTrack(tracks, last.trackId)
    /\ Len(tracks) > 0

\* C16 as claimed: a toolbar command given with a selection whose only
\* entry names a track or an element that no longer exists is a silent
\* no-op: no message, no track or element changed.
StaleCommandIsSilent ==
    (/\ last.op \in {"handleSplitSelected", "handleDuplicateSelected",
                     "handleSplitAndKeepLeft", "handleSplitAndKeepRight",
                     "handleSeparateAudio"}
     /\ Len(selectedElements) = 1
     /\ ~Exists(tracks, selectedElements[1]))
    => /\ last.toast = NoToast
       /\ last.removed = {}
       /\ last.moved = {}


\* ---- pointer events
\* The click c is genuine: a pointer-down was recorded and not yet consumed
\* when it came, the pointer moved at most 5 px in x and in y and at most
\* 500 ms passed since that pointer-down, and no selection-box drag was in
\* progress or had just ended.
Genuine(tracking, ev, selecting) ==
    /\ tracking.isMouseDown
    /\ ev.clientX - tracking.downX \in (0 - ClickPixels)..ClickPixels
    /\ ev.clientY - tracking.downY \in (0 - ClickPixels)..ClickPixels
    /\ ev.timeStamp - tracking.downTime <= ClickMillis
    /\ ~selecting

\* C17: the timeline click handler seeks only if a pointer-down on the
\* timeline background was recorded and not yet consumed, the pointer moved
\* at most 5 px in x and in y and at most 500 ms passed since it, and no
\* selection-box drag is in progress or has just finished; in every other
\* case the pointer-up produces no seek.  It is stated of the click that has
\* just been handled and of every click that can come next; a recorded
\* pointer-down is one of the timeline background.
ClickSeeksOnlyWhenGenuine ==
    /\ lastClick.seeked =>
          Genuine(lastClick.tracking, lastClick, lastClick.selecting)
    /\ \A ev \in PointerEvents(ClickTargets), fps \in ProjectFps :
          LET selecting == isSelecting \/ justFinishedSelecting
          IN TimelineContentClick(mouseTracking, ev, selecting, duration, fps).seeked
                => Genuine(mouseTracking, ev, selecting)
    /\ \A ev \in PointerEvents(TrackAreaTargets) :
          LET mt == TimelineMouseDown(mouseTracking, ev)
          IN mt # mouseTracking => ev.target \in {"track", "tracks"}

\* A click 5 px and 500 ms from its pointer-down has moved the playhead.
ClickSeeksOnlyWhenGenuineWitness ==
    /\ lastClick.seeked
    /\ lastClick.clientX - lastClick.tracking.downX = ClickPixels
    /\ lastClick.timeStamp - lastClick.tracking.downTime = ClickMillis
    /\ playbackTime = lastClick.time
    /\ playbackTime > 0

\* C18: a pointer-up on the empty area of a track clears the selection only
\* when it is a genuine click; one that ends a drag, a resize or a marquee
\* selection never clears the selection.
TrackClickClearsOnlyWhenGenuine ==
    (/\ lastClick.target = "track"
     /\ lastClick.selectedBefore # << >>
     /\ selectedElements = << >>)
       => Genuine(lastClick.tracking, lastClick, lastClick.selecting)


\* ---- selection after delete and duplicate
\* C19, amended: after the delete-selected command issued on a non-empty
\* selection and after the duplicate-selected command issued on a selection
\* of exactly one entry, the selection is empty; after delete-selected no
\* previously selected element remains on its track.
DeleteAndDuplicateClearSelection ==
    \A sel \in Selections(tracks) \cup {selectedElements} :
        /\ Len(sel) > 0 =>
              \A ripple \in BOOLEAN :
                 LET r == DeleteSelected(tracks, sel, ripple)
                 IN /\ r.selectedElements = << >>
                    /\ \A i \in 1..Len(sel) : ~Exists(r.tracks, sel[i])
        /\ Len(sel) = 1 =>
              DuplicateSelected(tracks, sel, nextId).selectedElements = << >>

\* The delete command has just removed two selected elements, or the
\* duplicate command has just copied the selected one.
DeleteAndDuplicateClearSelectionWitness ==
    /\ selectedElements = << >>
    /\ \/ /\ last.op = "handleDeleteSelected"
          /\ Cardinality(last.removed) = 2
       \/ /\ last.op = "handleDuplicateSelected"
          /\ last.ret # NoId

\* C19: after the delete-selected command and after the duplicate-selected
\* command issued on a non-empty selection, the selection is empty; after
\* delete-selected no previously selected element remains on its track.
CommandsClearSelection ==
    \A sel \in Selections(tracks) \cup {selectedElements} :
        Len(sel) > 0 =>
           /\ \A ripple \in BOOLEAN :
                 LET r == DeleteSelected(tracks, sel, ripple)
                 IN /\ r.selectedElements = << >>
                    /\ \A i \in 1..Len(sel) : ~Exists(r.tracks, sel[i])
           /\ DuplicateSelected(tracks, sel, nextId).selectedElements = << >>


\* ---- drop of files
\* The item made of file f of the dropped batch is in the media list.
FileInMediaList(f) ==
    HasMedia(mediaItems, ProcessedItem(f).name, ProcessedItem(f).url)
\* The ids the media store gave to the item made of file f.
FileMediaIds(f) ==
    { drop.mediaIds[k] : k \in { j \in 1..Len(drop.mediaIds) :
                                   drop.items[j] = ProcessedItem(f) } }
\* The item is the one element of some track; it is an element of some
\* track.
FileOnNewTrack(f) ==
    \E id \in FileMediaIds(f), i \in 1..Len(tracks) :
       /\ Len(tracks[i].elements) = 1
       /\ tracks[i].elements[1].mediaId = id
FileOnAnyTrack(f) == \E id \in FileMediaIds(f) : MediaOnTrack(tracks, id)

HalvesOf(E, L, R, atTime) ==
    LET effStart == E.startTime
        effEnd == E.startTime + (E.duration - E.trimStart - E.trimEnd)
    IN /\ L.mediaId = E.mediaId /\ R.mediaId = E.mediaId
       /\ L.duration = E.duration /\ R.duration = E.duration
       /\ L.startTime = E.startTime
       /\ L.trimStart = E.trimStart
       /\ L.trimEnd = E.trimEnd + (effEnd - atTime)
       /\ R.startTime = atTime
       /\ R.trimStart = E.trimStart + (atTime - effStart)
       /\ R.trimEnd = E.trimEnd
       /\ (L.duration - L.trimStart - L.trimEnd)
            + (R.duration - R.trimStart - R.trimEnd)
          = E.duration - E.trimStart - E.trimEnd

\* C22: on a successful splitElement of E at atTime, called directly or by
\* the split command, both halves have E's mediaId and duration; the left
\* half keeps E's startTime and trimStart and has trimEnd = E.trimEnd +
\* (E's effective end - atTime); the right half has startTime = atTime,
\* trimStart = E.trimStart + (atTime - E's effective start) and E's trimEnd;
\* the two effective durations add up to E's.
SplitKeepsMediaAndTrims ==
    \A ref \in ElementRefs(tracks), atTime \in PlayheadTimes :
        LET E == ElementAt(tracks, ref)
            r == splitElement(tracks, ref.trackId, ref.elementId, atTime, nextId)
            h == SplitSelected(tracks, << ref >>, atTime, nextId)
            right == [trackId |-> ref.trackId, elementId |-> nextId]
        IN /\ r.ret # NoId =>
                /\ r.ret = nextId
                /\ Exists(r.tracks, ref) /\ Exists(r.tracks, right)
                /\ HalvesOf(E, ElementAt(r.tracks, ref),
                            ElementAt(r.tracks, right), atTime)
           /\ h.splitCount = 1 =>
                /\ Exists(h.tracks, ref) /\ Exists(h.tracks, right)
                /\ HalvesOf(E, ElementAt(h.tracks, ref),
                            ElementAt(h.tracks, right), atTime)

\* splitElement has just cut an element that was trimmed at its end: the
\* right half has a trimStart and a trimEnd.
SplitKeepsMediaAndTrimsWitness ==
    /\ last.op \in {"splitElement", "handleSplitSelected"}
    /\ last.ret # NoId
    /\ \E ref \in ElementRefs(tracks) :
          /\ ElementAt(tracks, ref).startTime = last.atTime
          /\ ElementAt(tracks, ref).trimStart > 0
          /\ ElementAt(tracks, ref).trimEnd > 0


\* ---- the split command on a selection
\* The entries of sel whose element exists and has the time ct strictly
\* inside its effective range.
UnderPlayhead(trks, sel, ct) ==
    { ref \in Entries(sel) :
        /\ Exists(trks, ref)
        /\ ElementAt(trks, ref).startTime < ct
        /\ ct < ElementAt(trks, ref).startTime
                  + (ElementAt(trks, ref).duration
                       - ElementAt(trks, ref).trimStart
                       - ElementAt(trks, ref).trimEnd) }

\* C23: the split command with a non-empty selection splits every selected
\* element whose effective range strictly contains the playhead time and no
\* other element, and shows the error "Playhead must be within selected
\* elements to split" exactly when no element was split; with an empty
\* selection it does nothing and shows nothing.
SplitsEveryElementUnderPlayhead ==
    \A sel \in Selections(tracks) \cup {selectedElements}, ct \in PlayheadTimes :
        LET r == SplitSelected(tracks, sel, ct, nextId)
            hit == UnderPlayhead(tracks, sel, ct)
        IN IF Len(sel) = 0
           THEN r.tracks = tracks /\ r.toast = NoToast
           ELSE /\ r.splitCount = Cardinality(hit)
                /\ Cardinality(ElementRefs(r.tracks))
                     = Cardinality(ElementRefs(tracks)) + Cardinality(hit)
                /\ \A ref \in ElementRefs(tracks) :
                      /\ Exists(r.tracks, ref)
                      /\ ref \in hit =>
                            /\ ElementAt(r.tracks, ref).startTime
                                 = ElementAt(tracks, ref).startTime
                            /\ effectiveEnd(ElementAt(r.tracks, ref)) = ct
                            /\ \E right \in ElementRefs(r.tracks) \ ElementRefs(tracks) :
                                  /\ right.trackId = ref.trackId
                                  /\ ElementAt(r.tracks, right).startTime = ct
                                  /\ effectiveEnd(ElementAt(r.tracks, right))
                                       = effectiveEnd(ElementAt(tracks, ref))
                      /\ ref \notin hit =>
                            ElementAt(r.tracks, ref) = ElementAt(tracks, ref)
                /\ (r.toast # NoToast) <=> (hit = {})
                /\ r.toast \in {NoToast,
                                "Playhead must be within selected elements to split"}

\* The split command has just been given with two elements selected, one
\* under the playhead and one not: one was split and no error was shown.
SplitsEveryElementUnderPlayheadWitness ==
    /\ last.op = "handleSplitSelected"
    /\ Len(selectedElements) = 2
    /\ last.ret = 1
    /\ last.toast = NoToast
    /\ \A i \in 1..2 : Exists(tracks, selectedElements[i])


\* ---- more on pointer events
\* C24: a click on a timeline element that reaches the timeline click
\* handler does not seek but still deselects: the playhead time is
\* unchanged and the selection is cleared.
ElementClickDeselects ==
    lastClick.target = "element" =>
       /\ ~lastClick.seeked
       /\ selectedElements = << >>

\* The clicks on the ruler that can follow the pointer-down down.
RulerClicksAfter(down) ==
    { [target |-> "ruler", clientX |-> p[1], clientY |-> p[2],
       timeStamp |-> down.timeStamp + d] : p \in Points, d \in TimeSteps }

\* C25: a genuine click on the ruler area (pointer-down and pointer-up both
\* on the ruler, at most 5 px and 500 ms apart, no selection-box drag) is
\* processed by the timeline click handler as a click: the selection is
\* cleared and a seek is issued to the frame-snapped time of the ruler
\* position.  It is stated of every pointer-down on the ruler possible in a
\* state and every click that can follow it.
RulerClickSeeks ==
    \A down \in PointerEvents({"ruler"}), fps \in ProjectFps :
       \A up \in RulerClicksAfter(down) :
          (/\ up.clientX - down.clientX \in (0 - ClickPixels)..ClickPixels
           /\ up.clientY - down.clientY \in (0 - ClickPixels)..ClickPixels
           /\ up.timeStamp - down.timeStamp <= ClickMillis
           /\ ~isSelecting /\ ~justFinishedSelecting)
          => LET out == TimelineContentClick(
                           RulerAreaMouseDown(mouseTracking, down), up,
                           FALSE, duration, fps)
             IN /\ out.cleared
                /\ out.seeked
                /\ out.time = ClickTime(up, duration, fps)

\* C27: every seek issued by the timeline click handler targets a time t
\* with 0 <= t <= playback duration, also after the clamped raw time has
\* been snapped to the nearest frame boundary of the project fps.
SeekWithinDuration ==
    lastClick.seeked =>
       /\ 0 <= lastClick.time
       /\ lastClick.time <= duration * TicksPerTenth

\* C28: each recorded background pointer-down arms at most one click:
\* whenever the timeline click handler runs, whatever its outcome, the
\* tracking state is reset to idle, so a further click without a new
\* background pointer-down never seeks and never clears the selection
\* through that handler.
PointerDownArmsOneClick ==
    /\ lastClick.target # "none" => mouseTracking = NoTracking
    /\ \A ev \in PointerEvents(ClickTargets) :
          /\ ~TrackingAfterClick(mouseTracking, ev).isMouseDown
          /\ \A next \in PointerEvents(ClickTargets), fps \in ProjectFps :
                LET out == TimelineContentClick(
                              TrackingAfterClick(mouseTracking, ev), next,
                              isSelecting \/ justFinishedSelecting,
                              duration, fps)
                IN ~out.seeked /\ ~out.cleared

\* A click that met a recorded pointer-down and was taken for the end of a
\* drag has been handled: it did not seek, and the record is gone.
PointerDownArmsOneClickWitness ==
    /\ lastClick.target = "tracks"
    /\ lastClick.tracking.isMouseDown
    /\ ~lastClick.seeked
    /\ ~mouseTracking.isMouseDown


\* ---- snap indicator
\* C21: in every state the snap indicator is visible, and the playhead is
\* marked as snapping, only if a drag is in progress, snapping is enabled
\* and a current snap point is set; when snapping is off or no drag is in
\* progress the indicator is hidden even if a snap point of an earlier
\* computation is still stored.
SnapIndicatorOnlyWhileDragging ==
    LET visible == SnapIndicatorIsVisible(isDragging, snappingEnabled,
                                          currentSnapPoint)
        marked == IsSnappingToPlayhead(isDragging, snappingEnabled,
                                       currentSnapPoint)
    IN /\ visible => (isDragging /\ snappingEnabled
                        /\ currentSnapPoint # NoSnapPoint)
       /\ marked => (isDragging /\ snappingEnabled
                       /\ currentSnapPoint # NoSnapPoint)
       /\ (~isDragging \/ ~snappingEnabled) => (~visible /\ ~marked)

\* The drag has ended and the snap point on the playhead it found is still
\* stored: the indicator is hidden.
SnapIndicatorOnlyWhileDraggingWitness ==
    /\ ~isDragging
    /\ snappingEnabled
    /\ currentSnapPoint.type = "playhead"
    /\ ~SnapIndicatorIsVisible(isDragging, snappingEnabled, currentSnapPoint)

\* ---- drag counter
\* C26: after any sequence of dragenter, dragleave and drop events the drag
\* counter is never negative and isDragOver is true exactly when the
\* counter is greater than 0; events of a drag of a timeline element change
\* neither the counter nor the overlay and never create a track, and a drop
\* sets the counter to 0 and hides the overlay.
DragCounterTracksOverlay ==
    /\ dragCounter >= 0
    /\ isDragOver <=> dragCounter > 0
    /\ lastDrag.internal =>
          /\ dragCounter = lastDrag.counterBefore
          /\ isDragOver = lastDrag.overBefore
          /\ ~lastDrag.created
    /\ lastDrag.event = "drop" => (dragCounter = 0 /\ ~isDragOver)


\* ---- ripple delete of a selection
\* The selection with its entries in the opposite order.
Reversed(sel) == [i \in 1..Len(sel) |-> sel[Len(sel) + 1 - i]]

\* The selections of two or more elements of one track.
SameTrackSelections(trks) ==
    { s \in Selections(trks) :
        Len(s) >= 2 /\ \A i \in 1..Len(s) : s[i].trackId = s[1].trackId }

\* C29: ripple-deleting a selection of two or more elements of the same
\* track gives the same tracks whatever the order of the selection entries:
\* the remaining elements and their startTimes are identical, also when the
\* selected elements overlap each other or other elements.
RippleDeleteIgnoresSelectionOrder ==
    \A s \in SameTrackSelections(tracks) :
        DeleteSelected(tracks, s, TRUE).tracks
            = DeleteSelected(tracks, Reversed(s), TRUE).tracks


\* ---- start times
\* C30: elements are added at startTime >= 0 and the commands are given at
\* playhead times >= 0; after any sequence of split, split-and-keep-left,
\* split-and-keep-right, duplicate, plain delete and ripple delete every
\* element has startTime >= 0: a ripple shift never moves an element before
\* the origin of the timeline.
StartTimesNeverNegative ==
    \A e \in AllElements(tracks) : e.startTime >= 0

\* A ripple delete has moved an element back to the origin.
StartTimesNeverNegativeWitness ==
    /\ last.op \in {"handleDeleteSelected", "removeElementFromTrackWithRipple"}
    /\ \E r \in last.moved :
          /\ HasElement(tracks, r.trackId, r.elementId)
          /\ FindElement(tracks, r.trackId, r.elementId).startTime = 0

====
